---- MODULE Spec2Model ----
(***************************************************************************)
(* Model of the Antigravity quota refresher.                               *)
(*                                                                         *)
(*   - the trigger pipeline   (src/src/trigger.js, main and its helpers)   *)
(*   - the standing scheduler (src/src/trigger.js, class QuotaOptimizer)   *)
(*                                                                         *)
(* The specifications share one set of variables:                          *)
(*   SpecTime   calculateTriggerTime applied at sampled wall-clock instants*)
(*   SpecPipe   one run of main(): token, endpoints, quota, pools          *)
(*   SpecSched  QuotaOptimizer.start / scheduleNext / executeTrigger       *)
(*   FairSched  SpecSched with the fairness the event loop provides        *)
(*   SpecStatus showStatus printing the schedule, the operator at work     *)
(*   SpecRestart SpecSched with the process killed and started again       *)
(*   SpecNotify the Telegram notifier's send                               *)
(*   SpecQuota  checkQuota on every catalog                                *)
(*   SpecCycle  one scheduler cycle, each child process running main(),    *)
(*              also the process that outlives the kill of its attempt     *)
(*   SpecToken  getAccessToken on every response of the token endpoint     *)
(*   SpecProbe  one run of main() with health and trigger responses seen   *)
(*   SpecKey    the session key of the trigger requests of two processes   *)
(*   SpecGate   one run of main(), all endpoints reporting one catalog     *)
(*   FairGate   SpecGate with main() taking every step it can take         *)
(*   SpecAgree  checkQuota and the quota part of showStatus on one catalog *)
(*                                                                         *)
(* Time is in milliseconds.  Instants are counted from the start of an     *)
(* arbitrary UTC day 0; the configured timezone is the UTC offset (in      *)
(* minutes) that dayjs keeps in $offset for the lifetime of the value.     *)
(***************************************************************************)
EXTENDS Integers, Sequences, FiniteSets, Bags, TLC

VARIABLES
    \* ---- scheduler (QuotaOptimizer) ----
    cfg,          \* constructor fields: workStartTime, quotaCycle, timezone, dryRun
    clock,        \* wall clock (what dayjs() reads)
    nowRead,      \* `now` of the pending calculateTriggerTime result, -1 if none
    times,        \* `times` of scheduleNext: the result of calculateTriggerTime
    spc,          \* position of the scheduler
    timers,       \* pending setTimeout timers
    children,     \* child processes whose exec callback has not been called yet
    attempt,      \* loop variable of executeTrigger
    attempts,     \* runScript calls made in the current cycle
    delays,       \* backoff sleeps of the current cycle, in order
    cycleResult,  \* how the last executeTrigger ended
    cycles,       \* wake-ups fired so far
    fired,        \* the trigger instants whose wake-up fired, in order
    restarts,     \* times the scheduler process was killed and started again
    started,      \* the instant at which executeTrigger was last entered, -1 if never
    \* ---- pipeline (main) ----
    pc,           \* position in main
    epIdx,        \* index of `ep` in ENDPOINTS
    poolIdx,      \* index of `pool` in POOLS
    accessToken,
    projectId,
    models,       \* summary returned by checkQuota
    successCount,
    results,      \* per pool, what the pool loop printed in the last endpoint iteration
    epOutcome,    \* per endpoint, how the endpoint's iteration ended
    calls,        \* network requests issued, in order
    issued,       \* access tokens the token endpoint has issued so far
    \* ---- status, notifier, quota inspection ----
    statusEnv,    \* what showStatus reads: /.dockerenv, TRIGGER_TIME, docker ps, .env
    statusOut,    \* schedule lines printed by showStatus since statusEnv last changed
    sent,         \* calls of the notifier's send, with how each ended
    catalog,      \* models of the fetchAvailableModels response under inspection
    exchanged,    \* calls of getAccessToken: the response and how the call ended
    probed,       \* the loadCodeAssist response of the last health check observed
    answered,     \* the response to the last trigger request observed
    keyed,        \* trigger requests under inspection, with their session keys
    statusRun,    \* the showStatus call in progress: where it is and what it has read
    orphans       \* node processes of killed attempts that are still running (a bag)

schedVars == <<cfg, clock, nowRead, times, spc, timers, children, attempt,
               attempts, delays, cycleResult, cycles, fired, restarts,
                   started>>
pipeVars  == <<pc, epIdx, poolIdx, accessToken, projectId, models,
               successCount, results, epOutcome, calls, issued>>
auxVars   == <<statusEnv, statusOut, sent, catalog, exchanged, probed,
               answered, keyed, statusRun, orphans>>
vars == <<cfg, clock, nowRead, times, spc, timers, children, attempt,
          attempts, delays, cycleResult, cycles, fired, restarts, started,
          pc, epIdx, poolIdx, accessToken, projectId, models,
          successCount, results, epOutcome, calls, issued,
          statusEnv, statusOut, sent, catalog, exchanged, probed, answered,
          keyed, statusRun, orphans>>

(***************************************************************************)
(* Units                                                                   *)
(***************************************************************************)
MS_PER_SEC  == 1000
MS_PER_MIN  == 60000
MS_PER_HOUR == 3600000
MS_PER_DAY  == 86400000

(***************************************************************************)
(* Bounds of the model                                                     *)
(***************************************************************************)
\* the clock may advance by up to MaxSkew ms between two reads of dayjs()
MaxSkew == 1

(***************************************************************************)
(* Scheduler: configuration and calculateTriggerTime                       *)
(***************************************************************************)
QUOTA_CYCLE_HOURS == 5

NoTimes == [triggerTime |-> -1, refreshTime |-> -1]

\* new QuotaOptimizer(config): the fields the scheduler reads
QuotaOptimizer(h, m, tz, dry) ==
    [workStartTime |-> [hour |-> h, minute |-> m],
     quotaCycle    |-> QUOTA_CYCLE_HOURS,
     timezone      |-> tz,
     dryRun        |-> dry]

\* dayjs(t).tz(zone): the wall time shown in the zone, as ms
TzLocal(t, c) == t + c.timezone * MS_PER_MIN

\* today's time of day set on the UTC value, the zone ignored
TodayAt_InUTC(t, c) ==
    (t - (t % MS_PER_DAY)) + c.workStartTime.hour * MS_PER_HOUR
                           + c.workStartTime.minute * MS_PER_MIN

\* dayjs().tz(zone).hour(h).minute(m).second(0).millisecond(0), as an instant
TodayAt(t, c) ==
    LET local == TzLocal(t, c)
        day0  == local - (local % MS_PER_DAY)
    IN  day0 + c.workStartTime.hour * MS_PER_HOUR
             + c.workStartTime.minute * MS_PER_MIN
             - c.timezone * MS_PER_MIN

\* dayjs a.isBefore(b)
IsBefore(a, b) == a < b

\* the next trigger kept from the last one fired and incremented by a day
calculateTriggerTime_FromLast(now, base, c) ==
    LET today       == TodayAt(base, c)
        triggerTime == IF fired # <<>> THEN fired[Len(fired)] + MS_PER_DAY
                       ELSE IF IsBefore(today, now) THEN today + MS_PER_DAY
                       ELSE today
    IN  [triggerTime |-> triggerTime,
         refreshTime |-> triggerTime + c.quotaCycle * MS_PER_HOUR]

\* calculateTriggerTime(): `now` is the first read of the clock, `base` the
\* second one, from which today's trigger time is built
calculateTriggerTime(now, base, c) ==
    LET today       == TodayAt(base, c)
        triggerTime == IF IsBefore(today, now) THEN today + MS_PER_DAY ELSE today
    IN  [triggerTime |-> triggerTime,
         refreshTime |-> triggerTime + c.quotaCycle * MS_PER_HOUR]

\* String(n).padStart(2, '0') and the HH / mm of dayjs format: two digits
Pad2(n) == <<n \div 10, n % 10>>

\* times.refreshTime.format('... HH:mm'): the time of day shown in the zone
FormatHHmm(t, c) ==
    LET tod == TzLocal(t, c) % MS_PER_DAY
    IN  [hh |-> Pad2(tod \div MS_PER_HOUR),
         mm |-> Pad2((tod % MS_PER_HOUR) \div MS_PER_MIN)]

\* the calendar day of the instant in the zone
LocalDay(t, c) == TzLocal(t, c) \div MS_PER_DAY

\* the refresh hour of status without the wrap at midnight
RefreshHour_NoWrap(h) == h + 5

\* showStatus: const refreshHour = (h + 5) % 24
RefreshHour(h) == (h + 5) % 24

\* showStatus: refreshTime as printed on the 'Refresh:' line for the
\* trigger time h:m
showStatusRefresh(h, m) == [hh |-> Pad2(RefreshHour(h)), mm |-> Pad2(m)]

(***************************************************************************)
(* Pipeline: constants of lib/constants.js and of main                     *)
(***************************************************************************)
ENDPOINTS ==
    <<"https://daily-cloudcode-pa.sandbox.googleapis.com",
      "https://autopush-cloudcode-pa.sandbox.googleapis.com",
      "https://cloudcode-pa.googleapis.com">>

\* a model id is the sequence of its characters; a pattern is the text of a
\* regular expression without metacharacters and with the flag i
MODEL_GROUPS ==
    <<[id |-> "Claude",
       patterns |-> {<<"c", "l", "a", "u", "d", "e">>,
                     <<"g", "p", "t">>,
                     <<"o", "s", "s">>}],
      [id |-> "Gemini 3 Pro",
       patterns |-> {<<"g", "e", "m", "i", "n", "i", "-", "3", "-", "p", "r", "o">>}],
      [id |-> "Gemini 3 Flash",
       patterns |-> {<<"g", "e", "m", "i", "n", "i", "-", "3", "-", "f", "l", "a", "s", "h">>}]>>

\* POOLS with the first entry pasted twice
POOLS_Duplicated ==
    <<[id |-> "Claude",         triggerId |-> "claude-sonnet-4-5"],
      [id |-> "Claude",         triggerId |-> "claude-sonnet-4-5"],
      [id |-> "Gemini 3 Flash", triggerId |-> "gemini-3-flash"]>>

POOLS ==
    <<[id |-> "Claude",         triggerId |-> "claude-sonnet-4-5"],
      [id |-> "Gemini 3 Pro",   triggerId |-> "gemini-3-pro-high"],
      [id |-> "Gemini 3 Flash", triggerId |-> "gemini-3-flash"]>>

DEFAULT_PROJECT == "bamboo-precept-lgxtn"

\* remainingValue is a percentage; the model counts it in 1/1000 of a percent
\* and remainingFraction in 1/1000, so that remaining = fraction * 100
THRESHOLD_VALUE == 99500

(***************************************************************************)
(* Bounds and sampled inputs of the pipeline                               *)
(***************************************************************************)
\* number of entries of the model catalog returned by fetchAvailableModels
MaxCatalog == 3

\* keys of the catalog: one model per group (claude-sonnet-4-5,
\* Gemini-3-Pro-high, gemini-3-flash), an excluded one (gemini-3-pro-imagen)
\* and one that no group matches (gemini-2.5-pro)
ModelIds ==
    {<<"c", "l", "a", "u", "d", "e", "-", "s", "o", "n", "n", "e", "t", "-", "4", "-", "5">>,
     <<"G", "e", "m", "i", "n", "i", "-", "3", "-", "P", "r", "o", "-", "h", "i", "g", "h">>,
     <<"g", "e", "m", "i", "n", "i", "-", "3", "-", "p", "r", "o", "-", "i", "m", "a", "g", "e", "n">>,
     <<"g", "e", "m", "i", "n", "i", "-", "3", "-", "f", "l", "a", "s", "h">>,
     <<"g", "e", "m", "i", "n", "i", "-", "2", ".", "5", "-", "p", "r", "o">>}

\* a model id that two groups match, gemini-3-pro-glossy: /oss/ of Claude
\* and /gemini-3-pro/
OverlapId == <<"g", "e", "m", "i", "n", "i", "-", "3", "-", "p", "r", "o", "-", "g", "l", "o", "s", "s", "y">>

\* one model id for each pool (CLAUDE-sonnet-4-5, gemini-3-professional,
\* gemini-3-flash) and one that no group matches (gemini-2.5-pro)
GateIds ==
    {<<"C", "L", "A", "U", "D", "E", "-", "s", "o", "n", "n", "e", "t", "-", "4", "-", "5">>,
     <<"g", "e", "m", "i", "n", "i", "-", "3", "-", "p", "r", "o", "f", "e", "s", "s", "i", "o", "n", "a", "l">>,
     <<"g", "e", "m", "i", "n", "i", "-", "3", "-", "f", "l", "a", "s", "h">>,
     <<"g", "e", "m", "i", "n", "i", "-", "2", ".", "5", "-", "p", "r", "o">>}

\* remainingFraction of a catalog entry in 1/1000; Absent: no quotaInfo or no
\* remainingFraction in it
Absent == -1
Fractions == {Absent, 400, 994, 995, 1000}

CatalogEntries == [modelId : ModelIds, remainingFraction : Fractions]

\* Object.entries(models): keys are distinct, order is insertion order
Catalogs ==
    UNION {{c \in [1..n -> CatalogEntries] :
               \A i, j \in 1..n : i # j => c[i].modelId # c[j].modelId} :
           n \in 0..MaxCatalog}

StatusCodes == {200, 429, 500}

\* httpRequest: rejects (err), or resolves with a status code and a body that
\* is null when the JSON does not parse
Response(err, status, bodyNull, payload) ==
    [err |-> err, statusCode |-> status, bodyNull |-> bodyNull, payload |-> payload]

\* the answer of a request that never settles: the response is cut before
\* its end, and httpRequest neither resolves nor rejects
Unanswered == [err |-> FALSE, statusCode |-> 0, bodyNull |-> TRUE, payload |-> ""]

\* the access tokens the token endpoint issues, one after the other
TokenOf(n) == <<"ya29.token", "ya29.token2", "ya29.token3", "ya29.token4">>[n]

\* responses of the token endpoint: access_token absent, or the next token
TokenResponses ==
    {Response(TRUE, 0, FALSE, "")} \cup
    {Response(FALSE, s, n, t) : s \in {200, 400}, n \in BOOLEAN,
                                t \in {"", TokenOf(issued + 1)}}

HealthResponses ==
    {Response(TRUE, 0, FALSE, "")} \cup
    {Response(FALSE, s, n, p) : s \in {200, 500}, n \in BOOLEAN, p \in {"", "project-1"}}

QuotaResponses ==
    {Response(TRUE, 0, FALSE, <<>>)} \cup
    {Response(FALSE, 500, n, <<>>) : n \in BOOLEAN} \cup
    {Response(FALSE, 200, TRUE, <<>>)} \cup
    {Response(FALSE, 200, FALSE, c) : c \in Catalogs}

TriggerResponses ==
    {Response(TRUE, 0, FALSE, "")} \cup
    {Response(FALSE, s, FALSE, "") : s \in StatusCodes}

(***************************************************************************)
(* Pipeline: helpers                                                       *)
(***************************************************************************)
\* the lower-case letter of each upper-case letter
LowerCase ==
    [c \in {"A", "B", "C", "D", "E", "F", "G", "H", "I", "J", "K", "L", "M",
            "N", "O", "P", "Q", "R", "S", "T", "U", "V", "W", "X", "Y", "Z"} |->
        CASE c = "A" -> "a" [] c = "B" -> "b" [] c = "C" -> "c" [] c = "D" -> "d"
          [] c = "E" -> "e" [] c = "F" -> "f" [] c = "G" -> "g" [] c = "H" -> "h"
          [] c = "I" -> "i" [] c = "J" -> "j" [] c = "K" -> "k" [] c = "L" -> "l"
          [] c = "M" -> "m" [] c = "N" -> "n" [] c = "O" -> "o" [] c = "P" -> "p"
          [] c = "Q" -> "q" [] c = "R" -> "r" [] c = "S" -> "s" [] c = "T" -> "t"
          [] c = "U" -> "u" [] c = "V" -> "v" [] c = "W" -> "w" [] c = "X" -> "x"
          [] c = "Y" -> "y" [] c = "Z" -> "z"]

\* the character as the flag i compares it
Fold(c) == IF c \in DOMAIN LowerCase THEN LowerCase[c] ELSE c

\* pattern.test(modelId): the pattern occurs somewhere in the id, letters
\* compared without regard to case
test(pattern, modelId) ==
    \E i \in 1..(Len(modelId) - Len(pattern) + 1) :
        \A k \in 1..Len(pattern) : Fold(modelId[i + k - 1]) = Fold(pattern[k])

\* modelId.includes(text): the text occurs somewhere in the id, as it is
includes(modelId, text) ==
    \E i \in 1..(Len(modelId) - Len(text) + 1) :
        \A k \in 1..Len(text) : modelId[i + k - 1] = text[k]

\* the text of the exclusion: modelId.includes('image')
IMAGE == <<"i", "m", "a", "g", "e">>

\* find returning the last matching group instead of the first
FindGroup_LastMatch(modelId) ==
    LET hits == {g \in 1..Len(MODEL_GROUPS) :
                    \E p \in MODEL_GROUPS[g].patterns : test(p, modelId)}
    IN  IF hits = {} THEN 0 ELSE CHOOSE g \in hits : \A h \in hits : g >= h

\* MODEL_GROUPS.find(g => g.patterns.some(p => p.test(modelId))): index of
\* the first matching group, 0 when there is none
FindGroup(modelId) ==
    LET hits == {g \in 1..Len(MODEL_GROUPS) :
                    \E p \in MODEL_GROUPS[g].patterns : test(p, modelId)}
    IN  IF hits = {} THEN 0 ELSE CHOOSE g \in hits : \A h \in hits : g <= h

\* the model ids of the catalogs of the specifications
InspectedIds == ModelIds \cup {OverlapId} \cup GateIds

\* FindGroup of each id of a set, as a table
RECURSIVE GroupTable(_)
GroupTable(ids) ==
    LET id == CHOOSE x \in ids : TRUE
    IN  IF ids = {id} THEN id :> FindGroup(id)
        ELSE (id :> FindGroup(id)) @@ GroupTable(ids \ {id})

\* the group MODEL_GROUPS.find gives for each inspected id, computed once
GroupOf == GroupTable(InspectedIds)

\* modelId.includes('image') of each of the given ids, as a table
RECURSIVE ImageTable(_)
ImageTable(ids) ==
    LET id == CHOOSE x \in ids : TRUE
    IN  IF ids = {id} THEN id :> includes(id, IMAGE)
        ELSE (id :> includes(id, IMAGE)) @@ ImageTable(ids \ {id})

\* modelId.includes('image') of the ids that the catalogs use
IsImage == ImageTable(InspectedIds)

NotSet == -2

\* an entry without remainingFraction taken for a full pool
Remaining_AbsentIsFull(fraction) ==
    IF fraction = Absent THEN 100000 ELSE fraction * 100

\* (quota.remainingFraction || 0) * 100, with quota = info.quotaInfo || {}
Remaining(fraction) ==
    IF fraction = Absent THEN 0 ELSE fraction * 100

\* the for loop of checkQuota over Object.entries(allModels): summaryMap after
\* the entries i.. of the catalog, as remainingValue per group index
RECURSIVE SummaryMap(_, _, _)
SummaryMap(cat, i, map) ==
    IF i > Len(cat) THEN map
    ELSE LET e     == cat[i]
             g     == GroupOf[e.modelId]
         IN  IF g = 0 THEN SummaryMap(cat, i + 1, map)
             ELSE IF IsImage[e.modelId] THEN SummaryMap(cat, i + 1, map)
             ELSE IF map[g] # NotSet THEN SummaryMap(cat, i + 1, map)
             ELSE SummaryMap(cat, i + 1, [map EXCEPT ![g] = Remaining(e.remainingFraction)])

\* the values of summaryMap in insertion order, that is, in the order in
\* which the entries of the catalog under inspection first reach each group
RECURSIVE DiscoveryFrom(_, _, _)
DiscoveryFrom(map, i, seen) ==
    IF i > Len(catalog) THEN <<>>
    ELSE LET g == GroupOf[catalog[i].modelId]
         IN  IF g = 0 \/ g \in seen \/ IsImage[catalog[i].modelId]
             THEN DiscoveryFrom(map, i + 1, seen)
             ELSE <<[id |-> MODEL_GROUPS[g].id, remainingValue |-> map[g]]>>
                     \o DiscoveryFrom(map, i + 1, seen \cup {g})

\* [...summaryMap.values()]: the summary in discovery order
SummaryList_Discovery(map, g) == DiscoveryFrom(map, 1, {})

\* MODEL_GROUPS.map(g => summaryMap.get(g.id)).filter(Boolean)
RECURSIVE SummaryList(_, _)
SummaryList(map, g) ==
    IF g > Len(MODEL_GROUPS) THEN <<>>
    ELSE IF map[g] = NotSet THEN SummaryList(map, g + 1)
    ELSE <<[id |-> MODEL_GROUPS[g].id, remainingValue |-> map[g]]>>
            \o SummaryList(map, g + 1)

\* checkQuota(baseUrl, accessToken, projectId) given the response of the
\* fetchAvailableModels request: throws, or returns the summary
checkQuota(res) ==
    IF res.err \/ res.statusCode # 200 \/ res.bodyNull
    THEN [threw |-> TRUE, summary |-> <<>>]
    ELSE [threw |-> FALSE,
          summary |-> SummaryList(
              SummaryMap(res.payload, 1, [g \in 1..Len(MODEL_GROUPS) |-> NotSet]), 1)]

CheckQuotaOutcomes == {checkQuota(r) : r \in QuotaResponses}

\* getAccessToken(refreshToken) given the response of the token request
getAccessToken(res) ==
    IF res.err THEN [threw |-> TRUE, token |-> "none"]
    ELSE IF ~res.bodyNull /\ res.payload # "" THEN [threw |-> FALSE, token |-> res.payload]
    ELSE [threw |-> TRUE, token |-> "none"]

\* the health check block of main, given the response of loadCodeAssist
HealthOk(res) == ~res.err /\ res.statusCode = 200 /\ ~res.bodyNull

\* models.find(m => m.id === pool.id): index in models, 0 when absent
FindModel(ms, poolId) ==
    LET hits == {i \in 1..Len(ms) : ms[i].id = poolId}
    IN  IF hits = {} THEN 0 ELSE CHOOSE i \in hits : \A h \in hits : i <= h

\* the gate comparing the percentage with the fraction 0.995
BelowThreshold_FractionUnits(remainingValue) == remainingValue < 995

\* the gate with <= in place of <
BelowThreshold_Inclusive(remainingValue) == remainingValue <= THRESHOLD_VALUE

\* modelInfo.remainingValue < 99.5
BelowThreshold(remainingValue) == remainingValue < THRESHOLD_VALUE

\* the handling of the result without the branch for 429
TriggerOutcome_No429Branch(res) ==
    IF res.err THEN "Error"
    ELSE IF res.statusCode = 200 THEN "Success"
    ELSE "Failed"

\* the if / else if / else over the result of triggerQuota, and the catch
TriggerOutcome(res) ==
    IF res.err THEN "Error"
    ELSE IF res.statusCode = 429 THEN "RateLimited"
    ELSE IF res.statusCode = 200 THEN "Success"
    ELSE "Failed"

\* the pool loop leaving on a 429
NextPool_BreakOn429(i, outcome) ==
    IF outcome = "RateLimited" THEN Len(POOLS) + 1 ELSE i + 1

\* the pool loop trying a rate-limited pool again
NextPool_Retry429(i, outcome) ==
    IF outcome = "RateLimited" THEN i ELSE i + 1

\* the pool loop sending the request of a pool once more after a failure
NextPool_RetryFailedOnce(i, outcome) ==
    IF outcome = "Failed" /\ results[i] = "none" THEN i ELSE i + 1

\* the pool loop leaving when triggerQuota throws
NextPool_BreakOnError(i, outcome) ==
    IF outcome = "Error" THEN Len(POOLS) + 1 ELSE i + 1

\* for (const pool of POOLS): the next iteration, whatever the outcome
NextPool(i, outcome) == i + 1

\* the test after the loop that is never true
AllFailed_Never(count) == FALSE

\* the test after the loop that needs two successes
AllFailed_OffByOne(count) == count <= 1

\* if (successCount === 0): every pool of the endpoint failed
AllFailed(count) == count = 0

\* a request: its kind, endpoint, model and the bearer token in its
\* Authorization header ("none" for the token request)
Call(kind, e, model) ==
    [kind |-> kind, ep |-> e, model |-> model, token |-> accessToken]

\* number of requests of a kind sent to endpoint e (for a model, if given)
CountCalls(kind, e, model) ==
    Cardinality({i \in 1..Len(calls) :
        /\ calls[i].kind = kind
        /\ calls[i].ep = e
        /\ (model # "" => calls[i].model = model)})

(***************************************************************************)
(* Idle values of the two halves of the state                              *)
(***************************************************************************)
NoResults == [p \in 1..3 |-> "none"]
NoOutcome == [e \in 1..3 |-> "untried"]

PipeIdle ==
    /\ pc = "idle"
    /\ epIdx = 0
    /\ poolIdx = 0
    /\ accessToken = "none"
    /\ projectId = "none"
    /\ models = <<>>
    /\ successCount = 0
    /\ results = NoResults
    /\ epOutcome = NoOutcome
    /\ calls = <<>>
    /\ issued = 0

SchedIdle ==
    /\ cfg = QuotaOptimizer(12, 0, 0, FALSE)
    /\ clock = MS_PER_DAY
    /\ nowRead = -1
    /\ times = NoTimes
    /\ spc = "off"
    /\ timers = EmptyBag
    /\ children = 0
    /\ attempt = 0
    /\ attempts = 0
    /\ delays = <<>>
    /\ cycleResult = "none"
    /\ cycles = 0
    /\ fired = <<>>
    /\ restarts = 0
    /\ started = -1

\* no health check or trigger observed: a response that never arrived
NoProbe == Response(TRUE, 0, FALSE, "")

\* TRIGGER_TIME not set
NoTime == [hour |-> -1, minute |-> -1]

\* no showStatus call is in progress
NoRun == [at |-> "idle", docker |-> "notRunning", disturbed |-> FALSE]

AuxIdle ==
    /\ statusEnv = [inContainer |-> FALSE, envTriggerTime |-> NoTime,
                    docker |-> "notRunning", dotEnv |-> NoTime]
    /\ statusOut = <<>>
    /\ sent = <<>>
    /\ catalog = <<>>
    /\ exchanged = <<>>
    /\ probed = NoProbe
    /\ answered = NoProbe
    /\ keyed = <<>>
    /\ statusRun = NoRun
    /\ orphans = EmptyBag

(***************************************************************************)
(* SpecTime: calculateTriggerTime at sampled instants and configurations   *)
(***************************************************************************)
SampleHours     == 0..23
SampleMinutes   == {0, 30, 59}
SampleSubMinute == {0, 1, MS_PER_MIN - 1}
ConfigHours     == 0..23
ConfigMinutes   == {0, 30, 59}
ConfigOffsets   == {-300, 0, 330, 420}

SampleNows ==
    {MS_PER_DAY + h * MS_PER_HOUR + m * MS_PER_MIN + s :
        h \in SampleHours, m \in SampleMinutes, s \in SampleSubMinute}

TimeInit ==
    /\ cfg \in {QuotaOptimizer(h, m, tz, FALSE) :
                   h \in ConfigHours, m \in ConfigMinutes, tz \in ConfigOffsets}
    /\ clock \in SampleNows
    /\ nowRead = -1
    /\ times = NoTimes
    /\ spc = "time"
    /\ timers = EmptyBag
    /\ children = 0
    /\ attempt = 0
    /\ attempts = 0
    /\ delays = <<>>
    /\ cycleResult = "none"
    /\ cycles = 0
    /\ fired = <<>>
    /\ restarts = 0
    /\ started = -1
    /\ PipeIdle
    /\ AuxIdle

\* one call of calculateTriggerTime
CalcStep ==
    /\ spc = "time"
    /\ nowRead = -1
    /\ \E d \in 0..MaxSkew :
          /\ nowRead' = clock
          /\ times' = calculateTriggerTime(clock, clock + d, cfg)
          /\ clock' = clock + d
    /\ UNCHANGED <<cfg, spc, timers, children, attempt, attempts, delays,
                   cycleResult, cycles, fired, restarts,
                   started>>
    /\ UNCHANGED pipeVars
    /\ UNCHANGED auxVars

TimeNext == CalcStep

SpecTime == TimeInit /\ [][TimeNext]_vars

Computed == nowRead >= 0

\* C1: the next trigger is strictly after now and at most 24 hours after
\* now.
C1_StrictlyAfterNow ==
    Computed => /\ times.triggerTime > nowRead
                /\ times.triggerTime <= nowRead + MS_PER_DAY

\* C2: when now is today's trigger instant exactly, the candidate counts as
\* passed and the next trigger is the same time of day on the next calendar
\* day.
C2_RollsOnEquality ==
    (Computed /\ TodayAt(nowRead, cfg) = nowRead)
        => times.triggerTime = nowRead + MS_PER_DAY

\* the instant at which a clock in UTC+7 shows h:00 on day d
AtUtcPlus7(d, h) == d * MS_PER_DAY + h * MS_PER_HOUR - 7 * MS_PER_HOUR

ScenarioConfig == QuotaOptimizer(14, 0, 420, FALSE)

\* C13: with trigger time 14:00 and timezone UTC+7, a computation at 10:00
\* of a day gives the next trigger at 14:00 of the same day and the refresh
\* estimate at 19:00; a computation at 15:00 gives the next trigger at 14:00
\* of the next day.
C13_Scenario ==
    (Computed /\ cfg = ScenarioConfig) =>
        /\ nowRead = AtUtcPlus7(1, 10) =>
              /\ times.triggerTime = AtUtcPlus7(1, 14)
              /\ times.refreshTime = AtUtcPlus7(1, 19)
        /\ nowRead = AtUtcPlus7(1, 15) =>
              /\ times.triggerTime = AtUtcPlus7(2, 14)
              /\ times.refreshTime = AtUtcPlus7(2, 19)

\* C13 witness: the computation made at 15:00 in UTC+7, rolled to 14:00 of
\* the next day
C13_Witness ==
    /\ Computed
    /\ cfg = ScenarioConfig
    /\ nowRead = AtUtcPlus7(1, 15)
    /\ times.triggerTime = AtUtcPlus7(2, 14)

\* C14: the refresh estimate is the trigger instant plus 5 hours for every
\* trigger time of day; it falls on the day after the trigger exactly when
\* the trigger hour is 19 or later (22:00 gives 03:00 of the next day), and
\* the time of day status prints, hour (h + 5) mod 24 with the minutes
\* unchanged, is the time of day of that estimate.
C14_RefreshRolls ==
    Computed =>
        LET h == cfg.workStartTime.hour
            m == cfg.workStartTime.minute
        IN  /\ times.refreshTime = times.triggerTime + 5 * MS_PER_HOUR
            /\ FormatHHmm(times.triggerTime, cfg) = [hh |-> Pad2(h), mm |-> Pad2(m)]
            /\ FormatHHmm(times.refreshTime, cfg) = showStatusRefresh(h, m)
            /\ showStatusRefresh(h, m).mm = Pad2(m)
            /\ LocalDay(times.refreshTime, cfg) =
                  LocalDay(times.triggerTime, cfg) + (IF h + 5 >= 24 THEN 1 ELSE 0)
            /\ (h = 22 /\ m = 0) =>
                  showStatusRefresh(h, m) = [hh |-> <<0, 3>>, mm |-> <<0, 0>>]

\* C14 witness: trigger time 22:00, the estimate shown as 03:00 and falling
\* on the next day
C14_Witness ==
    /\ Computed
    /\ cfg.workStartTime = [hour |-> 22, minute |-> 0]
    /\ FormatHHmm(times.refreshTime, cfg) = [hh |-> <<0, 3>>, mm |-> <<0, 0>>]
    /\ LocalDay(times.refreshTime, cfg) = LocalDay(times.triggerTime, cfg) + 1

(***************************************************************************)
(* SpecPipe: one run of main() (no CLI flag)                               *)
(***************************************************************************)
PipeInit ==
    /\ SchedIdle
    /\ AuxIdle
    /\ pc = "start"
    /\ epIdx = 0
    /\ poolIdx = 0
    /\ accessToken = "none"
    /\ projectId = "none"
    /\ models = <<>>
    /\ successCount = 0
    /\ results = NoResults
    /\ epOutcome = NoOutcome
    /\ calls = <<>>
    /\ issued = 0

\* after the endpoint loop: throw new Error('All endpoints failed or are
\* rate-limited.'), caught by the catch of main
AfterLastEndpoint == "fatal"

NoExit == -1

\* exit status of the process at position p of main: process.exit(1) in the
\* catch, 0 when main returns and 0 when node runs out of work with main
\* still waiting for a request that will never settle; none while it runs
ExitStatus(p) ==
    IF p = "fatal" THEN 1 ELSE IF p \in {"done", "unsettled"} THEN 0 ELSE NoExit

\* an endpoint loop that leaves out the endpoint after a failed one
Continue_SkipsOne(outcome) ==
    /\ epOutcome' = [epOutcome EXCEPT ![epIdx] = outcome]
    /\ models' = <<>>
    /\ successCount' = 0
    /\ poolIdx' = 0
    /\ projectId' = "none"
    /\ IF epIdx + 1 < Len(ENDPOINTS)
       THEN pc' = "health" /\ epIdx' = epIdx + 2
       ELSE pc' = AfterLastEndpoint /\ epIdx' = epIdx

\* `continue` of the endpoint loop; after the last endpoint the loop ends and
\* main throws 'All endpoints failed or are rate-limited.' (process.exit(1))
Continue(outcome) ==
    /\ epOutcome' = [epOutcome EXCEPT ![epIdx] = outcome]
    /\ models' = <<>>
    /\ successCount' = 0
    /\ poolIdx' = 0
    /\ projectId' = "none"
    /\ IF epIdx < Len(ENDPOINTS)
       THEN pc' = "health" /\ epIdx' = epIdx + 1
       ELSE pc' = AfterLastEndpoint /\ epIdx' = epIdx

\* getRefreshToken() and getAccessToken(refreshToken)
Authenticate ==
    /\ pc = "start"
    /\ \E haveRefreshToken \in BOOLEAN, res \in TokenResponses :
          IF ~haveRefreshToken
          THEN /\ pc' = "fatal"
               /\ UNCHANGED <<accessToken, epIdx, calls, issued>>
          ELSE /\ calls' = Append(calls, Call("token", 0, ""))
               /\ LET r == getAccessToken(res)
                  IN  IF r.threw
                      THEN /\ pc' = "fatal"
                           /\ UNCHANGED <<accessToken, epIdx, issued>>
                      ELSE /\ pc' = "health"
                           /\ accessToken' = r.token
                           /\ issued' = issued + 1
                           /\ epIdx' = 1
    /\ UNCHANGED <<poolIdx, projectId, models, successCount, results, epOutcome>>
    /\ UNCHANGED schedVars
    /\ UNCHANGED auxVars

\* 1. Health Check, loadCodeAssist answered by res
HealthCheckOn(res) ==
    /\ calls' = Append(calls, Call("health", epIdx, ""))
    /\ IF HealthOk(res)
       THEN /\ projectId' = IF res.payload # "" THEN res.payload ELSE DEFAULT_PROJECT
            /\ pc' = "quota"
            /\ UNCHANGED <<epIdx, poolIdx, models, successCount, epOutcome>>
       ELSE Continue("healthFailed")
    /\ results' = NoResults
    /\ UNCHANGED <<accessToken, issued>>
    /\ UNCHANGED schedVars

\* 1. Health Check
HealthCheck ==
    /\ pc = "health"
    /\ \E res \in HealthResponses : HealthCheckOn(res)
    /\ UNCHANGED auxVars

\* the quota check entering the pool loop with any list that was fetched
QuotaCheckOn_AnyList(r) ==
    /\ calls' = Append(calls, Call("quota", epIdx, ""))
    /\ IF r.threw THEN Continue("quotaFailed")
       ELSE /\ models' = r.summary
            /\ successCount' = 0
            /\ poolIdx' = 1
            /\ pc' = "pools"
            /\ UNCHANGED <<epIdx, projectId, epOutcome>>
    /\ UNCHANGED <<accessToken, results, issued>>
    /\ UNCHANGED schedVars

\* 2. Quota Check, checkQuota ending as r
QuotaCheckOn(r) ==
    /\ calls' = Append(calls, Call("quota", epIdx, ""))
    /\ IF r.threw THEN Continue("quotaFailed")
       ELSE IF Len(r.summary) = 0 THEN Continue("noModels")
       ELSE /\ models' = r.summary
            /\ successCount' = 0
            /\ poolIdx' = 1
            /\ pc' = "pools"
            /\ UNCHANGED <<epIdx, projectId, epOutcome>>
    /\ UNCHANGED <<accessToken, results, issued>>
    /\ UNCHANGED schedVars

\* 2. Quota Check
QuotaCheck ==
    /\ pc = "quota"
    /\ \E r \in CheckQuotaOutcomes : QuotaCheckOn(r)
    /\ UNCHANGED auxVars

\* the trigger request of the current pool answered by res, the handling of
\* the result and the 1 s sleep
TriggerPool(res) ==
    LET outcome == TriggerOutcome(res)
    IN  /\ calls' = Append(calls, Call("trigger", epIdx, POOLS[poolIdx].triggerId))
        /\ results' = [results EXCEPT ![poolIdx] = outcome]
        /\ successCount' = IF outcome = "Success"
                           THEN successCount + 1 ELSE successCount
        /\ poolIdx' = NextPool(poolIdx, outcome)

\* 3. Trigger: one iteration of for (const pool of POOLS), including the
\* triggerQuota request of an eligible pool and the 1 s sleep after it
PoolStep ==
    /\ pc = "pools"
    /\ poolIdx <= Len(POOLS)
    /\ LET pool == POOLS[poolIdx]
           m    == FindModel(models, pool.id)
       IN  IF m = 0
           THEN /\ results' = [results EXCEPT ![poolIdx] = "SkippedNoInfo"]
                /\ poolIdx' = poolIdx + 1
                /\ UNCHANGED <<successCount, calls>>
           ELSE IF BelowThreshold(models[m].remainingValue)
           THEN /\ results' = [results EXCEPT ![poolIdx] = "SkippedCycleActive"]
                /\ successCount' = successCount + 1
                /\ poolIdx' = poolIdx + 1
                /\ UNCHANGED calls
           ELSE \E res \in TriggerResponses : TriggerPool(res)
    /\ UNCHANGED <<pc, epIdx, accessToken, projectId, models, epOutcome, issued>>
    /\ UNCHANGED schedVars
    /\ UNCHANGED auxVars

\* the test after the pool loop: next endpoint, or Done
AfterPools ==
    /\ pc = "pools"
    /\ poolIdx > Len(POOLS)
    /\ IF AllFailed(successCount)
       THEN Continue("allPoolsFailed")
       ELSE /\ pc' = "done"
            /\ epOutcome' = [epOutcome EXCEPT ![epIdx] = "done"]
            /\ UNCHANGED <<epIdx, poolIdx, projectId, models, successCount>>
    /\ UNCHANGED <<accessToken, results, calls, issued>>
    /\ UNCHANGED schedVars
    /\ UNCHANGED auxVars

\* main() is about to send a request: the token exchange, the health check
\* or the quota fetch of the endpoint, or the trigger of an eligible pool
AtRequest ==
    \/ pc \in {"start", "health", "quota"}
    \/ /\ pc = "pools"
       /\ poolIdx <= Len(POOLS)
       /\ LET m == FindModel(models, POOLS[poolIdx].id)
          IN  m # 0 /\ ~BelowThreshold(models[m].remainingValue)

\* the request main() sends at its position
RequestAt ==
    IF pc = "start" THEN Call("token", 0, "")
    ELSE IF pc = "health" THEN Call("health", epIdx, "")
    ELSE IF pc = "quota" THEN Call("quota", epIdx, "")
    ELSE Call("trigger", epIdx, POOLS[poolIdx].triggerId)

\* the connection is closed in the middle of the answer to the request:
\* httpRequest listens for 'end' of the response and 'error' of the request
\* only, so its promise neither resolves nor rejects; main() stays at the
\* await and node, with nothing left to wait for, exits with status 0
UnsettledAt ==
    /\ AtRequest
    /\ calls' = Append(calls, RequestAt)
    /\ pc' = "unsettled"
    /\ UNCHANGED <<epIdx, poolIdx, accessToken, projectId, models, successCount,
                   results, epOutcome, issued>>
    /\ UNCHANGED schedVars

Unsettled == UnsettledAt /\ UNCHANGED auxVars

PipeNext ==
    \/ Authenticate
    \/ HealthCheck
    \/ QuotaCheck
    \/ PoolStep
    \/ AfterPools
    \/ Unsettled

SpecPipe == PipeInit /\ [][PipeNext]_vars

(***************************************************************************)
(* Properties of the pipeline                                              *)
(***************************************************************************)
PoolIndices == 1..Len(POOLS)
EndpointIndices == 1..Len(ENDPOINTS)

\* the pool has an entry in the summary of the current endpoint
HasInfo(p) == FindModel(models, POOLS[p].id) # 0

\* remainingValue of the pool on the current endpoint (HasInfo assumed)
RemainingValueOf(p) == models[FindModel(models, POOLS[p].id)].remainingValue

\* trigger requests sent to endpoint e for the representative model of pool p
TriggersOn(e, p) == CountCalls("trigger", e, POOLS[p].triggerId)

\* the pool loop of the current endpoint has models in scope
LoopScope == pc \in {"pools", "done"}

LoopFinished == LoopScope /\ poolIdx > Len(POOLS)

EndpointFailures == {"healthFailed", "quotaFailed", "noModels", "allPoolsFailed"}

\* C3: for every pool with quota info on the current endpoint, a trigger
\* request is issued if and only if remainingFraction >= 0.995 (remaining
\* value >= 99.5); a pool below the threshold causes zero requests, is
\* recorded as skipped (cycle active) and counts in successCount.
C3_Gate ==
    LoopScope =>
        /\ \A p \in PoolIndices :
              (HasInfo(p) /\ results[p] # "none") =>
                  /\ (TriggersOn(epIdx, p) = 1) <=> (RemainingValueOf(p) >= 995 * 100)
                  /\ (RemainingValueOf(p) < 995 * 100) =>
                        /\ TriggersOn(epIdx, p) = 0
                        /\ results[p] = "SkippedCycleActive"
        /\ \A p \in PoolIndices : results[p] = "none" => TriggersOn(epIdx, p) = 0
        /\ successCount =
              Cardinality({p \in PoolIndices :
                              results[p] \in {"SkippedCycleActive", "Success"}})

\* C3 witness: on one endpoint a pool at 0.995 was triggered and a pool at
\* 0.994 was skipped and counted
C3_Witness ==
    /\ LoopScope
    /\ \E p, q \in PoolIndices :
          /\ HasInfo(p) /\ RemainingValueOf(p) = 99500 /\ TriggersOn(epIdx, p) = 1
          /\ HasInfo(q) /\ RemainingValueOf(q) = 99400
          /\ results[q] = "SkippedCycleActive"
          /\ successCount >= 1

\* C4: a run that succeeds does so via the first endpoint whose health check
\* succeeded, whose quota fetch gave at least one pool and whose successCount
\* is > 0; every earlier endpoint failed and was attempted exactly once, no
\* later endpoint is contacted.  With A failing its health check, B failing
\* on every pool and C having a pool success, the run succeeds via C with
\* each of A, B, C attempted exactly once.
C4_Failover ==
    /\ pc = "done" =>
          /\ epOutcome[epIdx] = "done"
          /\ successCount > 0
          /\ Len(models) >= 1
          /\ CountCalls("health", epIdx, "") = 1
          /\ CountCalls("quota", epIdx, "") = 1
          /\ \A e \in EndpointIndices :
                /\ e < epIdx => /\ epOutcome[e] \in EndpointFailures
                                /\ CountCalls("health", e, "") = 1
                                /\ CountCalls("quota", e, "") <= 1
                /\ e > epIdx => /\ epOutcome[e] = "untried"
                                /\ \A i \in 1..Len(calls) : calls[i].ep # e
    /\ ( /\ pc \in {"done", "fatal"}
         /\ epOutcome[1] = "healthFailed"
         /\ epOutcome[2] = "allPoolsFailed"
         /\ epOutcome[3] \in {"done", "allPoolsFailed"}
         /\ \E p \in PoolIndices : results[p] = "Success" )
       => /\ pc = "done"
          /\ epIdx = 3
          /\ \A e \in EndpointIndices : CountCalls("health", e, "") = 1

\* C4 witness: A failed its health check, every pool failed on B, one pool
\* succeeded on C and the run is done
C4_Witness ==
    /\ pc = "done"
    /\ epOutcome = <<"healthFailed", "allPoolsFailed", "done">>
    /\ Cardinality({p \in PoolIndices : results[p] = "Success"}) = 1
    /\ CountCalls("trigger", 2, "") >= 1

\* C5: after the pool loop of an endpoint, the pipeline advances to the next
\* endpoint (or, after the last one, fails with all endpoints exhausted) if
\* and only if successCount = 0; otherwise the run ends in Done, even if
\* some pools were Failed or RateLimited.
C5_AdvanceIffNoSuccess ==
    [][(pc = "pools" /\ poolIdx > Len(POOLS)) =>
          /\ (successCount = 0) =>
                /\ epOutcome'[epIdx] = "allPoolsFailed"
                /\ IF epIdx < Len(ENDPOINTS)
                   THEN pc' = "health" /\ epIdx' = epIdx + 1
                   ELSE pc' = "fatal"
          /\ (successCount > 0) =>
                /\ pc' = "done"
                /\ epIdx' = epIdx
                /\ results' = results]_vars

\* C5 witness: a run that is Done although one pool Failed and one pool was
\* RateLimited on the endpoint used
C5_Witness ==
    /\ pc = "done"
    /\ \E p, q \in PoolIndices : results[p] = "Failed" /\ results[q] = "RateLimited"

\* C6: a RateLimited (429) outcome on one pool does not prevent the later
\* pools: when the loop of the endpoint is over, every pool after a
\* RateLimited one has been gated and, if eligible, triggered on the same
\* endpoint.
C6_RateLimitedContinues ==
    LoopFinished =>
        \A p, q \in PoolIndices :
            (p < q /\ results[p] = "RateLimited") =>
                /\ results[q] # "none"
                /\ (HasInfo(q) /\ RemainingValueOf(q) >= 99500)
                       => TriggersOn(epIdx, q) = 1

\* C6 witness: the first pool was RateLimited and the next one was triggered
\* with success on the same endpoint
C6_Witness ==
    /\ LoopFinished
    /\ results[1] = "RateLimited"
    /\ results[2] = "Success"
    /\ TriggersOn(epIdx, 2) = 1

\* C10 (as stated): at most one trigger request per pool in a run, counted
\* across all endpoints.
C10_OncePerRun ==
    \A p \in PoolIndices : CountCalls("trigger", 1, POOLS[p].triggerId)
                         + CountCalls("trigger", 2, POOLS[p].triggerId)
                         + CountCalls("trigger", 3, POOLS[p].triggerId) <= 1

\* C10 (amended): at most one trigger request per pool and per endpoint in a
\* run; a pool is triggered again on the next endpoint when every pool
\* failed on the previous one.
C10_OncePerEndpoint ==
    \A p \in PoolIndices : \A e \in EndpointIndices :
        /\ TriggersOn(e, p) <= 1
        /\ (e > 1 /\ TriggersOn(e, p) = 1) => epOutcome[e - 1] \in EndpointFailures

\* C10 witness: the same pool was triggered on two endpoints of one run
C10_Witness ==
    \E p \in PoolIndices : TriggersOn(1, p) = 1 /\ TriggersOn(2, p) = 1

\* the process of main() has ended
Terminated == pc \in {"done", "fatal", "unsettled"}

\* getRefreshToken or getAccessToken threw: no access token was obtained
AuthFailed == Terminated /\ accessToken = "none"

\* every endpoint was tried and none reached Done
AllEndpointsFailed ==
    Terminated /\ \A e \in EndpointIndices : epOutcome[e] \in EndpointFailures

\* C11: a single run exits with a non-zero status if and only if it is
\* run-fatal (authentication failed, or every endpoint was exhausted without
\* reaching Done); when some endpoint reaches Done the exit status is 0,
\* whatever pools or earlier endpoints failed, and no status is produced
\* before the run is over.
C11_ExitStatus ==
    /\ (ExitStatus(pc) \notin {0, NoExit}) <=> (AuthFailed \/ AllEndpointsFailed)
    /\ (\E e \in EndpointIndices : epOutcome[e] = "done") => ExitStatus(pc) = 0
    /\ ExitStatus(pc) = 0 =>
          /\ \E e \in EndpointIndices : epOutcome[e] = "done"
          /\ accessToken # "none"
    /\ ExitStatus(pc) = NoExit <=> ~Terminated

\* the summary of the current endpoint reports all three pools, pool b at
\* 40% and the other two at 100%
FullExceptOne(b) ==
    /\ LoopScope
    /\ \A p \in PoolIndices :
          /\ HasInfo(p)
          /\ RemainingValueOf(p) = IF p = b THEN 40000 ELSE 100000

\* C12: with pools {A: 100%, B: 40%, C: 100%} reported on a healthy
\* endpoint, the trigger request is issued for A and for C, once each, and
\* never for B; B is recorded as skipped (cycle active) and the run ends in
\* Done on that endpoint, whatever the outcomes of A and C.
C12_SkipScenario ==
    /\ [](\A b \in PoolIndices :
            (FullExceptOne(b) /\ LoopFinished) =>
                /\ \A p \in PoolIndices :
                      TriggersOn(epIdx, p) = IF p = b THEN 0 ELSE 1
                /\ results[b] = "SkippedCycleActive"
                /\ successCount >= 1)
    /\ [][\A b \in PoolIndices :
            (FullExceptOne(b) /\ LoopFinished /\ pc = "pools") =>
                /\ pc' = "done"
                /\ epIdx' = epIdx
                /\ epOutcome'[epIdx] = "done"]_vars

\* C12 witness: A at 100% and C at 100% were triggered (and both failed),
\* B at 40% was skipped, and the run is Done on that endpoint
C12_Witness ==
    /\ FullExceptOne(2)
    /\ pc = "done"
    /\ TriggersOn(epIdx, 1) = 1 /\ TriggersOn(epIdx, 3) = 1
    /\ TriggersOn(epIdx, 2) = 0
    /\ results = <<"Failed", "SkippedCycleActive", "RateLimited">>

(***************************************************************************)
(* SpecSched: the standing scheduler, QuotaOptimizer                       *)
(***************************************************************************)
MAX_RETRIES == 3
RETRY_DELAY_MS == 5000
COOLDOWN_MS == 3600000
EXEC_TIMEOUT_MS == 60000

\* wake-ups the model lets fire
MaxCycles == 2
\* a timer fires up to MaxLate ms after it is due
MaxLate == 1

\* time from the start of the trigger script to the callback of exec: exec
\* calls back when the child exits, at once when the output of the child
\* exceeds maxBuffer, and at the timeout
RunDurations == {200, EXEC_TIMEOUT_MS}

\* how long the health check child runs: exec has no timeout for it
HealthDurations == {MS_PER_SEC, 8 * MS_PER_HOUR}

\* trigger time 12:00 (the default), in UTC and in UTC+7, with and without
\* --dry-run
SchedConfigs ==
    {QuotaOptimizer(12, 0, tz, dry) : tz \in {0, 420}, dry \in BOOLEAN}

\* the scheduler is started at 05:00 UTC (12:00 in UTC+7), one second before
\* 12:00 UTC (a health check of one second then ends at 12:00) or 1 ms later
StartClocks ==
    {MS_PER_DAY + 5 * MS_PER_HOUR,
     MS_PER_DAY + 12 * MS_PER_HOUR - MS_PER_SEC,
     MS_PER_DAY + 12 * MS_PER_HOUR - MS_PER_SEC + 1}

SchedInit ==
    /\ cfg \in SchedConfigs
    /\ clock \in StartClocks
    /\ nowRead = -1
    /\ times = NoTimes
    /\ spc = "boot"
    /\ timers = EmptyBag
    /\ children = 0
    /\ attempt = 0
    /\ attempts = 0
    /\ delays = <<>>
    /\ cycleResult = "none"
    /\ cycles = 0
    /\ fired = <<>>
    /\ restarts = 0
    /\ started = -1
    /\ PipeIdle
    /\ AuxIdle

Timer(kind, due) == [kind |-> kind, due |-> due]

\* setTimeout(callback, delay) at instant now
SetTimeout(pending, kind, now, delay) ==
    pending (+) SetToBag({Timer(kind, now + delay)})

\* a setTimeout timer is gone once it fired
FiredTimer(pending, t) == pending (-) SetToBag({t})

Pending(kind) == {t \in BagToSet(timers) : t.kind = kind}

Max(a, b) == IF a >= b THEN a ELSE b

\* the wait after a failed attempt, with the test attempt <= MAX_RETRIES
SleepBeforeRetry_Inclusive(n) == n <= MAX_RETRIES

\* if (attempt < MAX_RETRIES): a backoff sleep follows the failed attempt
SleepBeforeRetry(n) == n < MAX_RETRIES

\* RETRY_DELAY_MS * Math.pow(2, attempt - 1)
RetryDelay(n) == RETRY_DELAY_MS * 2 ^ (n - 1)

\* scheduleNext called as soon as the cycle is complete, without the wait
CooldownTimer_Immediate(pending, result, now) ==
    SetTimeout(pending, "cooldown", now, 0)

\* a wait of one minute in place of one hour
CooldownTimer_OneMinute(pending, result, now) ==
    SetTimeout(pending, "cooldown", now, MS_PER_MIN)

\* setTimeout(() => this.scheduleNext(), 60 * 60 * 1000) after executeTrigger
\* returned, whatever its result
CooldownTimer(pending, result, now) ==
    SetTimeout(pending, "cooldown", now, COOLDOWN_MS)

\* the delay without the clamp at 0
ArmDelay_Unclamped(triggerTime, now) == triggerTime - now

\* Math.max(0, times.triggerTime.diff(now))
ArmDelay(triggerTime, now) == Max(0, triggerTime - now)

\* scheduleNext() without the test of this.dryRun
scheduleNext_IgnoresDryRun(pending, at) ==
    \E d1, d2 \in 0..MaxSkew :
        LET t     == calculateTriggerTime(at, at + d1, cfg)
            now   == at + d1 + d2
            delay == ArmDelay(t.triggerTime, now)
        IN  /\ nowRead' = at
            /\ times' = t
            /\ clock' = now
            /\ spc' = "armed"
            /\ timers' = SetTimeout(pending, "wake", now, delay)

\* scheduleNext() called at instant `at`, with `pending` the timers left
scheduleNext(pending, at) ==
    \E d1, d2 \in 0..MaxSkew :
        LET t     == calculateTriggerTime(at, at + d1, cfg)
            now   == at + d1 + d2
            delay == ArmDelay(t.triggerTime, now)
        IN  /\ nowRead' = at
            /\ times' = t
            /\ clock' = now
            /\ IF cfg.dryRun
               THEN spc' = "exited" /\ timers' = pending
               ELSE spc' = "armed" /\ timers' = SetTimeout(pending, "wake", now, delay)

\* the end of a cycle: executeTrigger returned, the callback of the wake-up
\* timer logs 'Cycle complete' and arms the 1 h timer
CycleComplete(pending, result, now) ==
    /\ cycleResult' = result
    /\ timers' = CooldownTimer(pending, result, now)
    /\ spc' = "cooldown"

\* start(): banner, then await runHealthCheck()
Start ==
    /\ spc = "boot"
    /\ spc' = "healthcheck"
    /\ UNCHANGED <<cfg, clock, nowRead, times, timers, children, attempt,
                   attempts, delays, cycleResult, cycles, fired, restarts,
                   started>>
    /\ UNCHANGED pipeVars
    /\ UNCHANGED auxVars

\* the health check child exited, d ms after start() ran it: start() calls
\* scheduleNext()
HealthCheckDone ==
    /\ spc = "healthcheck"
    /\ \E d \in HealthDurations : scheduleNext(timers, clock + d)
    /\ UNCHANGED <<cfg, children, attempt, attempts, delays, cycleResult, cycles,
                   fired, restarts,
                   started>>
    /\ UNCHANGED pipeVars
    /\ UNCHANGED auxVars

\* the wake-up timer fires: executeTrigger() up to its first await; the
\* locals of the scheduleNext call that armed the timer are gone
WakeFire ==
    /\ cycles < MaxCycles
    /\ \E t \in Pending("wake"), late \in 0..MaxLate, scriptExists \in BOOLEAN :
          LET now  == Max(clock, t.due) + late
              left == FiredTimer(timers, t)
          IN  /\ clock' = now
              /\ started' = now
              /\ cycles' = cycles + 1
              /\ delays' = <<>>
              /\ IF scriptExists
                 THEN /\ attempts' = 1
                      /\ attempt' = 1
                      /\ children' = children + 1
                      /\ spc' = "running"
                      /\ cycleResult' = "running"
                      /\ timers' = left
                 ELSE /\ attempts' = 0
                      /\ attempt' = 0
                      /\ children' = children
                      /\ CycleComplete(left, "noScript", now)
    /\ fired' = Append(fired, times.triggerTime)
    /\ nowRead' = -1
    /\ times' = NoTimes
    /\ UNCHANGED <<cfg, restarts>>
    /\ UNCHANGED pipeVars
    /\ UNCHANGED auxVars

\* executeTrigger without the return after a successful attempt
runScriptCallback_NoReturn(ok, d) ==
    LET now == clock + d
    IN  /\ clock' = now
        /\ children' = children - 1
        /\ IF SleepBeforeRetry(attempt)
           THEN /\ delays' = Append(delays, RetryDelay(attempt))
                /\ timers' = SetTimeout(timers, "backoff", now, RetryDelay(attempt))
                /\ spc' = "backoff"
                /\ cycleResult' = IF ok THEN "success" ELSE cycleResult
                /\ UNCHANGED attempt
           ELSE /\ CycleComplete(timers, IF ok THEN "success" ELSE "exhausted", now)
                /\ UNCHANGED <<attempt, delays>>
        /\ UNCHANGED <<cfg, nowRead, times, attempts, cycles, fired, restarts,
                   started>>

\* the callback of exec in runScript, d ms after the child started: the
\* promise resolves (ok) or rejects, and executeTrigger goes on
runScriptCallback(ok, d) ==
    LET now == clock + d
    IN  /\ clock' = now
        /\ children' = children - 1
        /\ IF ok
           THEN /\ CycleComplete(timers, "success", now)
                /\ UNCHANGED <<attempt, delays>>
           ELSE IF SleepBeforeRetry(attempt)
           THEN /\ delays' = Append(delays, RetryDelay(attempt))
                /\ timers' = SetTimeout(timers, "backoff", now, RetryDelay(attempt))
                /\ spc' = "backoff"
                /\ UNCHANGED <<attempt, cycleResult>>
           ELSE /\ CycleComplete(timers, "exhausted", now)
                /\ UNCHANGED <<attempt, delays>>
        /\ UNCHANGED <<cfg, nowRead, times, attempts, cycles, fired, restarts,
                   started>>

\* `continue` of the endpoint loop in a surviving process
SurvivorContinue(o) ==
    IF o.epIdx < Len(ENDPOINTS)
    THEN [o EXCEPT !.pc = "health", !.epIdx = @ + 1, !.models = <<>>,
                   !.successCount = 0, !.poolIdx = 0]
    ELSE [o EXCEPT !.pc = AfterLastEndpoint, !.models = <<>>,
                   !.successCount = 0, !.poolIdx = 0]

\* main() of a process from position o up to its next request, or to its
\* end: the statements in between send nothing and wait for nothing
RECURSIVE ToNextRequest(_)
ToNextRequest(o) ==
    IF o.pc = "idle" THEN [o EXCEPT !.pc = "start"]
    ELSE IF o.pc # "pools" THEN o
    ELSE IF o.poolIdx > Len(POOLS)
    THEN IF AllFailed(o.successCount) THEN SurvivorContinue(o)
         ELSE [o EXCEPT !.pc = "done", !.models = <<>>, !.successCount = 0,
                        !.poolIdx = 0]
    ELSE LET m == FindModel(o.models, POOLS[o.poolIdx].id)
         IN  IF m = 0 THEN ToNextRequest([o EXCEPT !.poolIdx = @ + 1])
             ELSE IF BelowThreshold(o.models[m].remainingValue)
             THEN ToNextRequest([o EXCEPT !.poolIdx = @ + 1, !.successCount = @ + 1])
             ELSE o

\* the locals of main() that decide what the process does next, taken where
\* main() waits next
Survivor ==
    ToNextRequest([pc |-> pc, epIdx |-> epIdx, poolIdx |-> poolIdx,
                   accessToken |-> accessToken, models |-> models,
                   successCount |-> successCount])

\* exec kills the process it started, `/bin/sh -c "node trigger.js"`, at the
\* timeout and when the output exceeds maxBuffer: where the shell does not
\* replace itself by node, node is not signalled and goes on running after
\* the callback of exec, whatever number of earlier attempts is still running
Kill(survives) ==
    orphans' = IF survives THEN orphans (+) SetToBag({Survivor}) ELSE orphans

\* the callback of exec in runScript: the child process exited, whatever it
\* did, or exec killed it (at the timeout, or earlier for its output) and
\* reports the error
ChildExit ==
    /\ spc = "running"
    /\ children > 0
    /\ \E ok \in BOOLEAN, d \in RunDurations, survives \in BOOLEAN :
          /\ survives => ~ok
          /\ runScriptCallback(ok, d)
          /\ Kill(survives)
    /\ UNCHANGED pipeVars
    /\ UNCHANGED <<statusEnv, statusOut, sent, catalog, exchanged, probed,
                   answered, keyed, statusRun>>

\* a process that survived its kill ends, whatever it did
OrphanExit ==
    /\ \E o \in BagToSet(orphans) : orphans' = orphans (-) SetToBag({o})
    /\ UNCHANGED <<statusEnv, statusOut, sent, catalog, exchanged, probed,
                   answered, keyed, statusRun>>
    /\ UNCHANGED schedVars
    /\ UNCHANGED pipeVars

\* the backoff sleep is over: attempt++ and the loop test
BackoffFire ==
    /\ spc = "backoff"
    /\ \E t \in Pending("backoff"), late \in 0..MaxLate :
          LET now  == Max(clock, t.due) + late
              left == FiredTimer(timers, t)
          IN  /\ clock' = now
              /\ IF attempt + 1 <= MAX_RETRIES
                 THEN /\ attempt' = attempt + 1
                      /\ attempts' = attempts + 1
                      /\ children' = children + 1
                      /\ spc' = "running"
                      /\ timers' = left
                      /\ UNCHANGED cycleResult
                 ELSE /\ attempt' = attempt + 1
                      /\ CycleComplete(left, "exhausted", now)
                      /\ UNCHANGED <<attempts, children>>
    /\ UNCHANGED <<cfg, nowRead, times, delays, cycles, fired, restarts,
                   started>>
    /\ UNCHANGED pipeVars
    /\ UNCHANGED auxVars

\* live reconfiguration: the 1 h callback computes the next trigger and then
\* takes the trigger time of day from a TRIGGER_TIME changed to 13:00
CooldownFire_Reconfigures ==
    /\ spc = "cooldown"
    /\ \E t \in Pending("cooldown"), late \in 0..MaxLate :
          scheduleNext(FiredTimer(timers, t), Max(clock, t.due) + late)
    /\ cfg' = [cfg EXCEPT !.workStartTime = [hour |-> 13, minute |-> 0]]
    /\ UNCHANGED <<children, attempt, attempts, delays, cycleResult, cycles,
                   fired, restarts,
                   started>>
    /\ UNCHANGED pipeVars
    /\ UNCHANGED auxVars

\* the 1 h timer fires: scheduleNext()
CooldownFire ==
    /\ spc = "cooldown"
    /\ \E t \in Pending("cooldown"), late \in 0..MaxLate :
          scheduleNext(FiredTimer(timers, t), Max(clock, t.due) + late)
    /\ UNCHANGED <<cfg, children, attempt, attempts, delays, cycleResult, cycles,
                   fired, restarts,
                   started>>
    /\ UNCHANGED pipeVars
    /\ UNCHANGED auxVars

SchedNext ==
    \/ Start
    \/ HealthCheckDone
    \/ WakeFire
    \/ ChildExit
    \/ OrphanExit
    \/ BackoffFire
    \/ CooldownFire

SpecSched == SchedInit /\ [][SchedNext]_vars

\* timers fire, and the callback of exec in runScript is called within its
\* timeout of 60 s.  The exec of runHealthCheck has no timeout: its callback
\* is called only when a child that may wait for an answer forever exits, so
\* nothing makes HealthCheckDone happen
FairSched ==
    /\ SpecSched
    /\ WF_vars(Start)
    /\ WF_vars(WakeFire)
    /\ WF_vars(ChildExit)
    /\ WF_vars(BackoffFire)
    /\ WF_vars(CooldownFire)

(***************************************************************************)
(* Properties of the scheduler                                             *)
(***************************************************************************)
WakeArmed == Pending("wake") # {}

\* C7 (as stated): a cycle in which every attempt fails makes exactly 3
\* attempts with backoff delays 5 s, 10 s and 20 s, and never a 4th attempt.
C7_ThreeDelays ==
    /\ attempts <= 3
    /\ cycleResult = "exhausted" =>
          /\ attempts = 3
          /\ delays = <<5000, 10000, 20000>>

\* C7 (amended): a cycle in which every attempt fails makes exactly 3
\* attempts with the two backoff delays 5 s and 10 s between them (no wait
\* follows the third attempt), and never a 4th attempt.
C7_TwoDelays ==
    /\ attempts <= 3
    /\ attempt <= 3
    /\ cycleResult = "exhausted" =>
          /\ attempts = 3
          /\ delays = <<5000, 10000>>
          /\ Pending("backoff") = {}

\* C7 witness: a cycle that ended with all attempts failed
C7_Witness ==
    /\ cycleResult = "exhausted"
    /\ attempts = 3
    /\ Len(delays) = 2

\* C8: after a cycle in which all 3 attempts failed the scheduler goes on
\* and eventually arms the following wake-up; in every execution of the
\* scheduler without dry run a wake-up is always eventually armed again.
C8_FailForward ==
    /\ [](cycleResult = "exhausted" => <>(WakeArmed /\ cycleResult = "exhausted"))
    /\ [](~cfg.dryRun => <>WakeArmed)

\* runs of the trigger script in progress: the child exec is waiting for, and
\* the processes of killed attempts that are still running
RunsInProgress == children + BagCardinality(orphans)

\* C9: at most one run of the trigger script at any time; no timer is
\* pending while a run is in progress, at most one timer is pending at any
\* moment, and the wake-up timer is pending only when the previous cycle
\* (attempts, backoff waits, cool-down) is over.
C9_SingleTimeline ==
    /\ RunsInProgress <= 1
    /\ BagCardinality(timers) <= 1
    /\ RunsInProgress >= 1 => (timers = EmptyBag /\ spc = "running")
    /\ WakeArmed => /\ RunsInProgress = 0
                    /\ spc = "armed"
                    /\ cycleResult # "running"
                    /\ Pending("backoff") = {}
                    /\ Pending("cooldown") = {}

\* the second attempt of a cycle is running while the process of the first
\* attempt, killed at the exec timeout, is still running
AttemptsOverlap ==
    /\ children = 1
    /\ attempt = 2
    /\ BagCardinality(orphans) = 1

\* the three attempts of a cycle were killed at the exec timeout and the
\* processes of all three are still running
AllAttemptsAlive ==
    /\ cycles = 1
    /\ attempts = MAX_RETRIES
    /\ children = 0
    /\ BagCardinality(orphans) = MAX_RETRIES

\* C17: with the dry-run flag set the scheduler computes and prints the
\* schedule and stops: in every execution no run of the trigger script is
\* ever started, no wake-up (or any other) timer is ever armed and no
\* trigger fires.
C17_DryRun ==
    cfg.dryRun =>
        /\ attempts = 0
        /\ attempt = 0
        /\ children = 0
        /\ timers = EmptyBag
        /\ cycles = 0
        /\ fired = <<>>
        /\ cycleResult = "none"
        /\ spc \in {"boot", "healthcheck", "exited"}
        /\ spc = "exited" =>
              /\ Computed
              /\ times.triggerTime >= nowRead
              /\ times.refreshTime = times.triggerTime + 5 * MS_PER_HOUR

\* C17 witness: a dry run that has printed its schedule and returned with
\* nothing armed and nothing run
C17_Witness ==
    /\ cfg.dryRun
    /\ spc = "exited"
    /\ Computed
    /\ timers = EmptyBag
    /\ attempts = 0

\* C22: when a cycle is complete (the run succeeded), the scheduler waits
\* one hour from the completion: during the wait no trigger is computed and
\* no wake-up is armed, the only pending timer is due one hour after the
\* completion, and the following trigger is computed at an instant at least
\* one hour after the completion.
C22_CooldownFirst ==
    /\ [](spc = "cooldown" =>
            /\ BagToSet(timers) = {Timer("cooldown", clock + MS_PER_HOUR)}
            /\ ~WakeArmed
            /\ ~Computed
            /\ times = NoTimes)
    /\ [][(spc = "cooldown" /\ spc' # "cooldown") =>
            /\ nowRead' >= clock + MS_PER_HOUR
            /\ clock' >= clock + MS_PER_HOUR
            /\ times'.triggerTime >= clock + MS_PER_HOUR
            /\ Pending("cooldown")' = {}]_vars

\* C22 witness: after a successful cycle the following wake-up is armed, by
\* a computation made at least one hour after the trigger fired
C22_Witness ==
    /\ cycleResult = "success"
    /\ cycles = 1
    /\ WakeArmed
    /\ nowRead >= fired[1] + MS_PER_HOUR + 200
    /\ times.triggerTime = fired[1] + MS_PER_DAY

(***************************************************************************)
(* SpecStatus: the scheduler part of showStatus (--status)                 *)
(***************************************************************************)
\* status invocations the model lets happen between two changes of statusEnv
MaxStatus == 2

\* values of TRIGGER_TIME, in the environment or in .env
TriggerTimes ==
    {[hour |-> 9, minute |-> 5], [hour |-> 14, minute |-> 0], [hour |-> 22, minute |-> 30]}

StatusEnvs ==
    [inContainer    : BOOLEAN,
     envTriggerTime : TriggerTimes \cup {NoTime},
     docker         : {"running", "notRunning"},
     dotEnv         : TriggerTimes \cup {NoTime}]

\* the text 'Unknown', or nothing printed, in place of a time
UnknownTime == [hh |-> <<>>, mm |-> <<>>]

\* the 'HH:MM' text of a trigger time
TimeText(t) == [hh |-> Pad2(t.hour), mm |-> Pad2(t.minute)]

\* '12:00', the trigger time showStatus assumes when .env has none
DefaultTriggerTime == [hour |-> 12, minute |-> 0]

\* showStatus, '1. Show scheduler status': the Status, Trigger and Refresh
\* lines for what it reads
showStatusSchedule(env) ==
    IF env.inContainer
    THEN IF env.envTriggerTime = NoTime
         THEN [status |-> "Active", trigger |-> UnknownTime, refresh |-> UnknownTime]
         ELSE [status  |-> "Active",
               trigger |-> TimeText(env.envTriggerTime),
               refresh |-> showStatusRefresh(env.envTriggerTime.hour,
                                             env.envTriggerTime.minute)]
    ELSE IF env.docker = "running"
    THEN LET triggerTime == IF env.dotEnv # NoTime THEN env.dotEnv
                            ELSE DefaultTriggerTime
         IN  [status  |-> "Running",
              trigger |-> TimeText(triggerTime),
              refresh |-> showStatusRefresh(triggerTime.hour, triggerTime.minute)]
    ELSE [status |-> "Not running", trigger |-> UnknownTime, refresh |-> UnknownTime]

StatusInit ==
    /\ SchedIdle
    /\ PipeIdle
    /\ statusEnv \in StatusEnvs
    /\ statusOut = <<>>
    /\ sent = <<>>
    /\ catalog = <<>>
    /\ exchanged = <<>>
    /\ probed = NoProbe
    /\ answered = NoProbe
    /\ keyed = <<>>
    /\ statusRun = NoRun
    /\ orphans = EmptyBag

\* the lines of a showStatus call, and whether statusEnv changed while the
\* call was in progress
Printed(lines, disturbed) ==
    [status |-> lines.status, trigger |-> lines.trigger, refresh |-> lines.refresh,
     disturbed |-> disturbed]

\* showStatus up to its first await: it tests /.dockerenv; inside the
\* container it reads TRIGGER_TIME and prints, on the host it starts
\* `docker ps` and waits
ShowStatus ==
    /\ statusRun.at = "idle"
    /\ Len(statusOut) < MaxStatus
    /\ IF statusEnv.inContainer
       THEN /\ statusOut' = Append(statusOut,
                                   Printed(showStatusSchedule(statusEnv), FALSE))
            /\ UNCHANGED statusRun
       ELSE /\ statusRun' = [at |-> "docker", docker |-> "notRunning",
                             disturbed |-> FALSE]
            /\ UNCHANGED statusOut
    /\ UNCHANGED <<statusEnv, sent, catalog, exchanged, probed, answered, keyed,
                   orphans>>
    /\ UNCHANGED schedVars
    /\ UNCHANGED pipeVars

\* `docker ps` lists the containers as they are now
DockerPs ==
    /\ statusRun.at = "docker"
    /\ statusRun' = [statusRun EXCEPT !.at = "listed", !.docker = statusEnv.docker]
    /\ UNCHANGED <<statusEnv, statusOut, sent, catalog, exchanged, probed,
                   answered, keyed, orphans>>
    /\ UNCHANGED schedVars
    /\ UNCHANGED pipeVars

\* what showStatus has read when it prints on the host: the status that
\* `docker ps` listed, and .env as it is at the resumption
HostReads ==
    [inContainer    |-> FALSE,
     envTriggerTime |-> statusEnv.envTriggerTime,
     docker         |-> statusRun.docker,
     dotEnv         |-> statusEnv.dotEnv]

\* showStatus after the await of `docker ps`: with a container listed it
\* reads .env, and it prints; it writes no file and sets no variable
ShowStatusResume ==
    /\ statusRun.at = "listed"
    /\ statusOut' = Append(statusOut,
                           Printed(showStatusSchedule(HostReads), statusRun.disturbed))
    /\ statusRun' = NoRun
    /\ UNCHANGED <<statusEnv, sent, catalog, exchanged, probed, answered, keyed,
                   orphans>>
    /\ UNCHANGED schedVars
    /\ UNCHANGED pipeVars

\* the operator changes the configuration (deploys, stops the container,
\* edits .env), also while a showStatus call is waiting for `docker ps`
ChangeEnv ==
    /\ statusOut # <<>> \/ statusRun.at # "idle"
    /\ \E e \in StatusEnvs :
          /\ e # statusEnv
          /\ statusEnv' = e
    /\ statusOut' = <<>>
    /\ statusRun' = IF statusRun.at = "idle" THEN statusRun
                    ELSE [statusRun EXCEPT !.disturbed = TRUE]
    /\ UNCHANGED <<sent, catalog, exchanged, probed, answered, keyed, orphans>>
    /\ UNCHANGED schedVars
    /\ UNCHANGED pipeVars

StatusNext ==
    \/ ShowStatus
    \/ DockerPs
    \/ ShowStatusResume
    \/ ChangeEnv

SpecStatus == StatusInit /\ [][StatusNext]_vars

(***************************************************************************)
(* SpecRestart: the scheduler, killed and started again at any instant     *)
(***************************************************************************)
\* restarts the model lets happen
MaxRestarts == 1

\* time from the kill to the constructor of the new process: the start of
\* the process takes time, the operator may take days
Downtimes == {1, 2 * MS_PER_DAY}

\* the process is killed and `node index.js` is run again with the same
\* arguments and environment. It is process 1 of its container (ENTRYPOINT
\* ["node"]), so every process it left behind ends with it: nothing of the
\* old process is left but the wall clock
Restart ==
    /\ restarts < MaxRestarts
    /\ spc # "boot"
    /\ \E d \in Downtimes : clock' = clock + d
    /\ restarts' = restarts + 1
    /\ spc' = "boot"
    /\ nowRead' = -1
    /\ times' = NoTimes
    /\ timers' = EmptyBag
    /\ children' = 0
    /\ attempt' = 0
    /\ attempts' = 0
    /\ delays' = <<>>
    /\ cycleResult' = "none"
    /\ orphans' = EmptyBag
    /\ UNCHANGED <<cfg, cycles, fired, started>>
    /\ UNCHANGED pipeVars
    /\ UNCHANGED <<statusEnv, statusOut, sent, catalog, exchanged, probed,
                   answered, keyed, statusRun>>

RestartNext ==
    \/ SchedNext
    \/ Restart

SpecRestart == SchedInit /\ [][RestartNext]_vars

\* the first instant not before now at which the clock of the zone shows
\* the configured time of day
NextTriggerOf(now, c) ==
    LET tod    == TzLocal(now, c) % MS_PER_DAY
        target == c.workStartTime.hour * MS_PER_HOUR
                  + c.workStartTime.minute * MS_PER_MIN
    IN  now + ((target - tod) % MS_PER_DAY)

\* C16: the next trigger instant depends on the wall clock and the static
\* configuration only: whatever was fired before and however often the
\* process was restarted, a computation at instant now gives the first
\* instant not before now with the configured time of day; and the trigger
\* of a day that has fired is never fired again, restart or not.
C16_RestartSafe ==
    /\ Computed =>
          /\ times.triggerTime = NextTriggerOf(nowRead, cfg)
          /\ times.refreshTime = times.triggerTime + cfg.quotaCycle * MS_PER_HOUR
    /\ \A i, j \in 1..Len(fired) : i < j => fired[j] >= fired[i] + MS_PER_DAY
    /\ (WakeArmed /\ fired # <<>>) =>
          times.triggerTime >= fired[Len(fired)] + MS_PER_DAY

\* C16 witness: the process was restarted within a minute of the firing of
\* a day's trigger and has armed the trigger of the next day
C16_Witness ==
    /\ restarts = 1
    /\ Len(fired) = 1
    /\ WakeArmed
    /\ nowRead <= fired[1] + MS_PER_MIN + 2
    /\ times.triggerTime = fired[1] + MS_PER_DAY

(***************************************************************************)
(* SpecNotify: the notifier, lib/telegram.js                               *)
(***************************************************************************)
\* calls of send the model lets happen
MaxSends == 2

\* TELEGRAM_BOT_TOKEN and TELEGRAM_CHAT_ID: set or not
NotifierConfigs == [botToken : BOOLEAN, chatId : BOOLEAN]

\* isEnabled(): Boolean(BOT_TOKEN && CHAT_ID)
isEnabled(conf) == conf.botToken /\ conf.chatId

Messages == {"success", "failure"}

\* what httpRequest gives send: a transport error, a response whose body is
\* ok true, ok false with a description, an object without ok or not JSON,
\* or nothing when the response is cut
SendResponses ==
    {Response(TRUE, 0, FALSE, "")} \cup
    {Response(FALSE, st, FALSE, b) : st \in {200, 400}, b \in {"ok", "notOk", "empty"}} \cup
    {Response(FALSE, st, TRUE, "") : st \in {200, 400}} \cup
    {Unanswered}

NoResponse == Response(FALSE, 0, TRUE, "")

\* the try block of send: httpRequest rejects (the await throws), or the
\* test res.statusCode !== 200 || !res.body?.ok chooses the line to print
SendTry(res) ==
    IF res.err THEN [threw |-> TRUE, log |-> "none"]
    ELSE IF res.statusCode # 200 \/ res.bodyNull \/ res.payload # "ok"
    THEN [threw |-> FALSE, log |-> "warn"]
    ELSE [threw |-> FALSE, log |-> "log"]

\* catch (err) { console.warn(...) }
SendCatch(r) ==
    IF r.threw THEN [raised |-> FALSE, log |-> "warn"]
    ELSE [raised |-> FALSE, log |-> r.log]

\* send(message) with the configuration conf, res being what the request
\* gives if it is made
send(message, conf, res) ==
    IF ~isEnabled(conf)
    THEN [message |-> message, config |-> conf, response |-> NoResponse,
          requested |-> FALSE, returned |-> TRUE, raised |-> FALSE, log |-> "none"]
    ELSE IF res = Unanswered
    THEN [message |-> message, config |-> conf, response |-> res,
          requested |-> TRUE, returned |-> FALSE, raised |-> FALSE, log |-> "none"]
    ELSE LET r == SendCatch(SendTry(res))
         IN  [message |-> message, config |-> conf, response |-> res,
              requested |-> TRUE, returned |-> ~r.raised, raised |-> r.raised,
              log |-> r.log]

NotifyInit ==
    /\ SchedIdle
    /\ PipeIdle
    /\ AuxIdle

\* a caller awaits send(message), after the sends before it have returned
Send ==
    /\ Len(sent) < MaxSends
    /\ \A i \in 1..Len(sent) : sent[i].returned
    /\ \E m \in Messages, conf \in NotifierConfigs, res \in SendResponses :
          /\ sent # <<>> => conf = sent[1].config
          /\ sent' = Append(sent, send(m, conf, res))
    /\ UNCHANGED <<statusEnv, statusOut, catalog, exchanged, probed, answered, keyed, statusRun, orphans>>
    /\ UNCHANGED schedVars
    /\ UNCHANGED pipeVars

NotifyNext == Send

SpecNotify == NotifyInit /\ [][NotifyNext]_vars

\* the request was made and did not deliver the message
DeliveryFailed(e) ==
    \/ e.response.err
    \/ e.response.statusCode # 200
    \/ e.response.bodyNull
    \/ e.response.payload # "ok"

\* C19: send never raises to its caller and always returns: when the
\* notifier is not configured it returns without a request; when the request
\* fails in transport, is answered with a status other than 200 or with a
\* body that is not ok, send returns normally and the failure is logged as a
\* warning.
C19_SendNeverRaises ==
    \A i \in 1..Len(sent) :
        LET e == sent[i]
        IN  /\ ~e.raised
            /\ e.returned
            /\ ~isEnabled(e.config) => (~e.requested /\ e.log = "none")
            /\ isEnabled(e.config) =>
                  /\ e.requested
                  /\ DeliveryFailed(e) <=> e.log = "warn"
                  /\ ~DeliveryFailed(e) <=> e.log = "log"

(***************************************************************************)
(* The scheduler and the notifier                                          *)
(***************************************************************************)
\* C18 (as stated): every completed cycle of the scheduler has produced a
\* notification: a success notification after a successful run, a failure
\* notification after all 3 attempts failed.
C18_CycleNotified ==
    /\ cycleResult = "success" =>
          \E i \in 1..Len(sent) : sent[i].message = "success"
    /\ cycleResult = "exhausted" =>
          \E i \in 1..Len(sent) : sent[i].message = "failure"

(***************************************************************************)
(* SpecQuota: checkQuota on every catalog                                  *)
(***************************************************************************)
\* remainingFraction of the entries of the inspected catalogs: none, 0.4, 1
InspectedFractions == {Absent, 400, 1000}

\* the catalogs of up to n entries with distinct keys among ids
CatalogsOver(ids, n) ==
    UNION {{c \in [1..k -> [modelId : ids, remainingFraction : InspectedFractions]] :
               \A i, j \in 1..k : i # j => c[i].modelId # c[j].modelId} :
           k \in 0..n}

QuotaInit ==
    /\ SchedIdle
    /\ pc = "inspect"
    /\ epIdx = 0
    /\ poolIdx = 0
    /\ accessToken = "none"
    /\ projectId = "none"
    /\ models = <<>>
    /\ successCount = 0
    /\ results = NoResults
    /\ epOutcome = NoOutcome
    /\ calls = <<>>
    /\ issued = 0
    /\ statusEnv = [inContainer |-> FALSE, envTriggerTime |-> NoTime,
                    docker |-> "notRunning", dotEnv |-> NoTime]
    /\ statusOut = <<>>
    /\ sent = <<>>
    /\ catalog \in CatalogsOver(ModelIds \cup {OverlapId}, MaxCatalog)
    /\ exchanged = <<>>
    /\ probed = NoProbe
    /\ answered = NoProbe
    /\ keyed = <<>>
    /\ statusRun = NoRun
    /\ orphans = EmptyBag

\* one call of checkQuota, the response carrying the catalog; or the answer
\* is cut and checkQuota neither returns nor throws
Inspect ==
    /\ pc = "inspect"
    /\ \/ \E st \in {200, 500} :
             LET r == checkQuota(Response(FALSE, st, FALSE, catalog))
             IN  /\ models' = r.summary
                 /\ pc' = IF r.threw THEN "inspectFailed" ELSE "inspected"
       \/ /\ pc' = "unsettled"
          /\ UNCHANGED models
    /\ UNCHANGED <<epIdx, poolIdx, accessToken, projectId, successCount,
                   results, epOutcome, calls, issued>>
    /\ UNCHANGED schedVars
    /\ UNCHANGED auxVars

QuotaNext == Inspect

SpecQuota == QuotaInit /\ [][QuotaNext]_vars

\* the group has an entry in the catalog that is not excluded
GroupPresent(g) ==
    \E i \in 1..Len(catalog) :
        /\ FindGroup(catalog[i].modelId) = g
        /\ ~includes(catalog[i].modelId, IMAGE)

\* position of the pool id in MODEL_GROUPS
GroupIndex(id) == CHOOSE g \in 1..Len(MODEL_GROUPS) : MODEL_GROUPS[g].id = id

\* C20: whatever the order in which the catalog lists its models, the
\* summary lists the pools in the order of MODEL_GROUPS, each pool that has
\* a matching entry once and no pool without one.
C20_CanonicalOrder ==
    pc = "inspected" =>
        /\ \A i, j \in 1..Len(models) :
              i < j => GroupIndex(models[i].id) < GroupIndex(models[j].id)
        /\ \A g \in 1..Len(MODEL_GROUPS) :
              GroupPresent(g) <=> \E i \in 1..Len(models) : models[i].id = MODEL_GROUPS[g].id

\* C20 witness: the catalog lists a Gemini 3 Flash model before a Claude
\* model and has Gemini 3 Pro only as an image model; the summary is
\* Claude, Gemini 3 Flash
C20_Witness ==
    /\ pc = "inspected"
    /\ Len(catalog) = 3
    /\ FindGroup(catalog[1].modelId) = 3
    /\ FindGroup(catalog[3].modelId) = 1
    /\ includes(catalog[2].modelId, IMAGE)
    /\ Len(models) = 2
    /\ models[1].id = "Claude"
    /\ models[2].id = "Gemini 3 Flash"

\* rule g of MODEL_GROUPS matches the id
Matches(g, id) == \E p \in MODEL_GROUPS[g].patterns : test(p, id)

\* the pool an id is classified into: the first rule that matches it; 0 for
\* an id that no rule matches or that is excluded
ClassOf(id) ==
    IF includes(id, IMAGE) THEN 0
    ELSE IF \A g \in 1..Len(MODEL_GROUPS) : ~Matches(g, id) THEN 0
    ELSE CHOOSE g \in 1..Len(MODEL_GROUPS) :
            Matches(g, id) /\ \A h \in 1..(g - 1) : ~Matches(h, id)

\* ClassOf of each of the given ids, as a table
RECURSIVE ClassTable(_)
ClassTable(ids) ==
    LET id == CHOOSE x \in ids : TRUE
    IN  IF ids = {id} THEN id :> ClassOf(id)
        ELSE (id :> ClassOf(id)) @@ ClassTable(ids \ {id})

\* ClassOf of the ids that the catalogs use
ClassIn == ClassTable(InspectedIds)

\* the entries of the catalog classified into pool g
EntriesOf(g) == {i \in 1..Len(catalog) : ClassIn[catalog[i].modelId] = g}

\* remaining value an entry gives: its remainingFraction as a percentage, 0
\* when it has none
ValueOf(e) == IF e.remainingFraction = Absent THEN 0 ELSE e.remainingFraction * 100

\* C21: every model id is classified by the first rule of MODEL_GROUPS that
\* matches it; ids that no rule matches and ids containing 'image' are
\* dropped and never determine the quota of a pool; the quota of a pool is
\* that of the first entry, in the order of the catalog, classified into it,
\* and later entries of the same pool are ignored.
C21_FirstMatchWins ==
    pc = "inspected" =>
        /\ \A g \in 1..Len(MODEL_GROUPS) :
              (EntriesOf(g) # {}) <=>
                  \E k \in 1..Len(models) : models[k].id = MODEL_GROUPS[g].id
        /\ \A k \in 1..Len(models) :
              LET g     == GroupIndex(models[k].id)
                  first == CHOOSE i \in EntriesOf(g) : \A j \in EntriesOf(g) : i <= j
              IN  models[k].remainingValue = ValueOf(catalog[first])

\* C21 witness: an id matched by the rules of Claude and of Gemini 3 Pro
\* comes first with 40% and counts for Claude only; the later Claude entry
\* with 100% is ignored and Gemini 3 Pro has the 100% of its own entry
C21_Witness ==
    /\ pc = "inspected"
    /\ Len(catalog) = 3
    /\ catalog[1] = [modelId |-> OverlapId, remainingFraction |-> 400]
    /\ catalog[2] = [modelId |-> <<"G", "e", "m", "i", "n", "i", "-", "3", "-", "P", "r", "o", "-", "h", "i", "g", "h">>,
                     remainingFraction |-> 1000]
    /\ catalog[3] = [modelId |-> <<"c", "l", "a", "u", "d", "e", "-", "s", "o", "n", "n", "e", "t", "-", "4", "-", "5">>,
                     remainingFraction |-> 1000]
    /\ models = <<[id |-> "Claude", remainingValue |-> 40000],
                  [id |-> "Gemini 3 Pro", remainingValue |-> 100000]>>

(***************************************************************************)
(* SpecCycle: one cycle of the scheduler, each runScript child running     *)
(* main() of trigger.js                                                    *)
(***************************************************************************)
\* summaries of servers that report no pool, or the Claude pool only, at
\* 100 %
SampledSummaries ==
    {<<>>, <<[id |-> "Claude", remainingValue |-> 100000]>>}

\* how checkQuota ends with these servers
SampledOutcomes ==
    {r \in CheckQuotaOutcomes : r.threw \/ r.summary \in SampledSummaries}

\* main() at position p got past the health check of endpoint e
OnlyFirstUp(p, e) == p \in {"quota", "pools", "done"} => e = 1

\* the child processes talk to servers that report a sampled summary and no
\* project id of their own, and of which only the first endpoint is up
ChildWorld ==
    /\ projectId \in {"none", DEFAULT_PROJECT}
    /\ models \in SampledSummaries
    /\ OnlyFirstUp(pc, epIdx)

\* the scheduler, started at 05:00 UTC for 12:00 UTC, has armed the wake-up
\* of 12:00 after a health check of one second
CycleInit ==
    LET at == MS_PER_DAY + 5 * MS_PER_HOUR + MS_PER_SEC
        t  == calculateTriggerTime(at, at, QuotaOptimizer(12, 0, 0, FALSE))
    IN  /\ cfg = QuotaOptimizer(12, 0, 0, FALSE)
        /\ clock = at
        /\ nowRead = at
        /\ times = t
        /\ spc = "armed"
        /\ timers = SetTimeout(EmptyBag, "wake", at, ArmDelay(t.triggerTime, at))
        /\ children = 0
        /\ attempt = 0
        /\ attempts = 0
        /\ delays = <<>>
        /\ cycleResult = "none"
        /\ cycles = 0
        /\ fired = <<>>
        /\ restarts = 0
        /\ started = -1
        /\ PipeIdle
        /\ AuxIdle

\* a runner that hands the last access token to the next child
CarriedToken_Cached == IF issued > 0 THEN TokenOf(issued) ELSE "none"

\* what a new node process knows of the tokens of earlier runs: accessToken
\* is a local of main()
CarriedToken == "none"

\* node starts trigger.js: main() begins with fresh locals
ChildBoot ==
    /\ spc = "running"
    /\ children = 1
    /\ pc = "idle"
    /\ accessToken' = CarriedToken
    /\ pc' = IF CarriedToken = "none" THEN "start" ELSE "health"
    /\ epIdx' = IF CarriedToken = "none" THEN 0 ELSE 1
    /\ UNCHANGED <<poolIdx, projectId, models, successCount, results, epOutcome,
                   calls, issued>>
    /\ UNCHANGED schedVars
    /\ UNCHANGED auxVars

\* one step of main() in the child
ChildStep ==
    /\ spc = "running"
    /\ children = 1
    /\ PipeNext
    /\ ChildWorld'

\* the memory of the child process is gone with it
ProcessGone ==
    /\ pc' = "idle"
    /\ epIdx' = 0
    /\ poolIdx' = 0
    /\ accessToken' = "none"
    /\ projectId' = "none"
    /\ models' = <<>>
    /\ successCount' = 0
    /\ results' = NoResults
    /\ epOutcome' = NoOutcome
    /\ calls' = <<>>
    /\ UNCHANGED issued

\* main() returned or called process.exit(1) before the exec timeout: the
\* callback of exec gets an error exactly when the exit status is not 0
ScriptExit ==
    /\ spc = "running"
    /\ children = 1
    /\ ExitStatus(pc) # NoExit
    /\ \E d \in {x \in RunDurations : x < EXEC_TIMEOUT_MS} :
          runScriptCallback(ExitStatus(pc) = 0, d)
    /\ ProcessGone
    /\ UNCHANGED auxVars

\* the child is still running when exec kills it, at the timeout or earlier
\* when its output exceeds maxBuffer: the callback gets an error; the node
\* process is gone, or goes on running
ScriptKilled ==
    /\ spc = "running"
    /\ children = 1
    /\ ExitStatus(pc) = NoExit
    /\ \E d \in RunDurations : runScriptCallback(FALSE, d)
    /\ \E survives \in BOOLEAN : Kill(survives)
    /\ ProcessGone
    /\ UNCHANGED <<statusEnv, statusOut, sent, catalog, exchanged, probed,
                   answered, keyed, statusRun>>

\* what main() of a surviving process does with the answer to the request
\* it waits for, up to its next request, with the servers of the child
\* processes; or the answer is cut and main() waits forever
MainSteps(o) ==
    LET settled ==
            IF o.pc = "start"
            THEN {[o EXCEPT !.pc = "fatal"]} \cup
                 {IF getAccessToken(res).threw
                  THEN [o EXCEPT !.pc = "fatal"]
                  ELSE [o EXCEPT !.pc = "health", !.epIdx = 1,
                                 !.accessToken = getAccessToken(res).token] :
                  res \in TokenResponses}
            ELSE IF o.pc = "health"
            THEN {IF HealthOk(res) THEN [o EXCEPT !.pc = "quota"]
                  ELSE SurvivorContinue(o) : res \in HealthResponses}
            ELSE IF o.pc = "quota"
            THEN {IF r.threw \/ Len(r.summary) = 0
                  THEN SurvivorContinue(o)
                  ELSE ToNextRequest([o EXCEPT !.models = r.summary,
                                               !.successCount = 0,
                                               !.poolIdx = 1, !.pc = "pools"]) :
                  r \in SampledOutcomes}
            ELSE {ToNextRequest(
                      [o EXCEPT
                          !.successCount =
                              IF TriggerOutcome(res) = "Success" THEN @ + 1 ELSE @,
                          !.poolIdx = NextPool(o.poolIdx, TriggerOutcome(res))]) :
                  res \in TriggerResponses}
        unsettled == {[o EXCEPT !.pc = "unsettled"]}
    IN  {n \in settled \cup unsettled : OnlyFirstUp(n.pc, n.epIdx)}

\* a process that survived its kill gets the answer it waits for and goes on
\* to its next request, or main() has ended and the process is gone
OrphanStep ==
    /\ \E p \in BagToSet(orphans) :
          IF ExitStatus(p.pc) # NoExit
          THEN /\ orphans' = orphans (-) SetToBag({p})
               /\ UNCHANGED issued
          ELSE \E o \in MainSteps(p) :
                  /\ orphans' = IF ExitStatus(o.pc) # NoExit
                                THEN orphans (-) SetToBag({p})
                                ELSE (orphans (-) SetToBag({p})) (+) SetToBag({o})
                  /\ issued' = IF o.accessToken # p.accessToken
                               THEN issued + 1 ELSE issued
    /\ UNCHANGED <<pc, epIdx, poolIdx, accessToken, projectId, models,
                   successCount, results, epOutcome, calls>>
    /\ UNCHANGED <<statusEnv, statusOut, sent, catalog, exchanged, probed,
                   answered, keyed, statusRun>>
    /\ UNCHANGED schedVars

CycleNext ==
    \/ WakeFire
    \/ ChildBoot
    \/ ChildStep
    \/ ScriptExit
    \/ ScriptKilled
    \/ OrphanStep
    \/ BackoffFire

SpecCycle == CycleInit /\ [][CycleNext]_vars

\* main() of the child is running
ChildRunning == pc # "idle"

\* C23: every attempt of a cycle re-runs the pipeline from fresh
\* authentication with nothing carried over: main() of each child starts
\* without a token, with no request sent and before the first endpoint; the
\* first request of each attempt is its own token exchange, the first endpoint
\* request goes to the first endpoint, every endpoint request carries the
\* token that this attempt obtained, and that token is a newly issued one,
\* which no process of an earlier attempt that is still running holds
C23_FreshAttempt ==
    /\ [](ChildRunning =>
            /\ spc = "running" /\ children = 1 /\ attempts = attempt
            /\ (pc = "start" => accessToken = "none" /\ calls = <<>> /\ epIdx = 0)
            /\ (calls # <<>> => calls[1].kind = "token")
            /\ (Len(calls) >= 2 => calls[2].kind = "health" /\ calls[2].ep = 1)
            /\ \A i \in 2..Len(calls) :
                  /\ calls[i].kind # "token"
                  /\ calls[i].token = accessToken
                  /\ calls[i].token \in {TokenOf(n) : n \in 1..issued}
            /\ \A o \in BagToSet(orphans) :
                  accessToken # "none" => o.accessToken # accessToken)
    /\ [][/\ (~ChildRunning /\ ChildRunning' =>
                 pc' = "start" /\ accessToken' = "none" /\ calls' = <<>>
                 /\ epIdx' = 0 /\ epOutcome' = NoOutcome /\ models' = <<>>
                 /\ successCount' = 0 /\ results' = NoResults)
          /\ (accessToken' # accessToken /\ accessToken' # "none" =>
                 /\ pc = "start"
                 /\ issued' = issued + 1
                 /\ accessToken' = TokenOf(issued')
                 /\ calls' = <<Call("token", 0, "")>>)]_vars

\* the second attempt of a cycle, after a first attempt that got a token of
\* its own: it has got another token and used it on the first endpoint
C23_Witness ==
    /\ attempt = 2
    /\ issued = 2
    /\ accessToken = TokenOf(2)
    /\ Len(calls) >= 3
    /\ calls[3].kind = "quota"
    /\ calls[3].token = TokenOf(2)

\* the token request of the running child got no token
TokenExchangeFailed == ChildRunning /\ calls # <<>> /\ accessToken = "none"

\* C24: a failed token exchange is fatal for the run and is not retried
\* inside it: the run has sent exactly one token request and no health,
\* quota or trigger request, its process exits with status 1, and the
\* scheduler takes it as a failed attempt (backoff, or the cycle exhausted)
C24_AuthFatal ==
    /\ [](TokenExchangeFailed =>
            /\ Len(calls) = 1
            /\ calls[1].kind = "token"
            /\ pc = "fatal"
            /\ ExitStatus(pc) = 1)
    /\ [][TokenExchangeFailed /\ pc' # pc =>
            /\ ~ChildRunning'
            /\ children' = 0
            /\ cycleResult' # "success"
            /\ IF attempt < MAX_RETRIES
               THEN spc' = "backoff" /\ Pending("backoff")' # {}
               ELSE spc' = "cooldown" /\ cycleResult' = "exhausted"]_vars

(***************************************************************************)
(* SpecToken: getAccessToken on every response of the token endpoint       *)
(***************************************************************************)
\* calls of getAccessToken in one behaviour
MaxExchanges == 2

TokenStatusCodes == {200, 201, 400, 401, 500}

\* what httpRequest gives getAccessToken: a transport error, a status code
\* with a body that is null (JSON that does not parse), without access_token
\* (payload "": also the {} of a body that is not JSON) or with one, or
\* nothing when the response is cut
ExchangeResponses ==
    {Response(TRUE, 0, FALSE, "")} \cup
    {Response(FALSE, s, n, t) : s \in TokenStatusCodes, n \in BOOLEAN,
                                t \in {"", TokenOf(1)}} \cup
    {Unanswered}

\* how the await of getAccessToken ends: it throws, it returns the token, or
\* it never ends
Exchanged(res) ==
    IF res = Unanswered THEN [threw |-> FALSE, token |-> "none"]
    ELSE getAccessToken(res)

TokenInit ==
    /\ SchedIdle
    /\ PipeIdle
    /\ AuxIdle

\* a caller awaits getAccessToken(refreshToken)
Exchange ==
    /\ Len(exchanged) < MaxExchanges
    /\ \E res \in ExchangeResponses :
          exchanged' = Append(exchanged, [res |-> res, out |-> Exchanged(res)])
    /\ UNCHANGED <<statusEnv, statusOut, sent, catalog, probed, answered, keyed, statusRun, orphans>>
    /\ UNCHANGED schedVars
    /\ UNCHANGED pipeVars

TokenNext == Exchange

SpecToken == TokenInit /\ [][TokenNext]_vars

\* the response arrived with a 2xx status
Is2xx(res) == ~res.err /\ res.statusCode \in 200..299

\* the response arrived with a JSON body holding an access_token
HasTokenField(res) == ~res.err /\ ~res.bodyNull /\ res.payload # ""

\* C25: the exchange fails on every response that is not 2xx or
\* has no token field, and returns a token only for a 2xx response with the
\* token field
C25_StatusChecked ==
    \A i \in 1..Len(exchanged) :
        exchanged[i].out.threw <=>
            ~(Is2xx(exchanged[i].res) /\ HasTokenField(exchanged[i].res))

(***************************************************************************)
(* SpecProbe: one run of main() with the loadCodeAssist responses observed *)
(***************************************************************************)
\* loadCodeAssist responses: a transport error, or a status code with a body
\* that is null (JSON that does not parse) or parsed, with or without
\* cloudaicompanionProject.id
ProbeResponses ==
    {Response(TRUE, 0, FALSE, "")} \cup
    {Response(FALSE, s, n, p) : s \in {200, 204, 429, 500}, n \in BOOLEAN,
                                p \in {"", "project-1"}}

\* the health check of the current endpoint, its response observed
Probe ==
    /\ pc = "health"
    /\ \E res \in ProbeResponses :
          /\ HealthCheckOn(res)
          /\ probed' = res
    /\ UNCHANGED <<statusEnv, statusOut, sent, catalog, exchanged, answered, keyed, statusRun, orphans>>

\* summaries in which every pool is absent, at 40 % or at 100 %
ProbeSummaries ==
    {SummaryList(map, 1) : map \in [1..Len(MODEL_GROUPS) -> {NotSet, 40000, 100000}]}

\* streamGenerateContent responses: a transport error, or a status code
ProbeTriggerResponses ==
    {Response(TRUE, 0, FALSE, "")} \cup
    {Response(FALSE, s, FALSE, "") : s \in {200, 204, 403, 429, 500}}

\* the current pool has quota info at or above the threshold
Eligible ==
    /\ pc = "pools"
    /\ poolIdx <= Len(POOLS)
    /\ LET m == FindModel(models, POOLS[poolIdx].id)
       IN  m # 0 /\ ~BelowThreshold(models[m].remainingValue)

\* the pool loop at an eligible pool, the response to its trigger observed
ProbeTrigger ==
    /\ Eligible
    /\ \E res \in ProbeTriggerResponses :
          /\ TriggerPool(res)
          /\ answered' = res
    /\ UNCHANGED <<pc, epIdx, accessToken, projectId, models, epOutcome, issued>>
    /\ UNCHANGED schedVars
    /\ UNCHANGED <<statusEnv, statusOut, sent, catalog, exchanged, probed, keyed, statusRun, orphans>>

\* the other steps of main(), against servers reporting such a summary
ProbeRest ==
    /\ \/ Authenticate
       \/ QuotaCheck
       \/ ~Eligible /\ PoolStep
       \/ AfterPools
    /\ models' \in ProbeSummaries

\* a request of main() that never settles, seen as Unanswered when it is a
\* health check or a trigger
ProbeUnsettled ==
    /\ UnsettledAt
    /\ probed' = IF pc = "health" THEN Unanswered ELSE probed
    /\ answered' = IF pc = "pools" THEN Unanswered ELSE answered
    /\ UNCHANGED <<statusEnv, statusOut, sent, catalog, exchanged, keyed, statusRun, orphans>>

ProbeNext == Probe \/ ProbeTrigger \/ ProbeRest \/ ProbeUnsettled

SpecProbe == PipeInit /\ [][ProbeNext]_vars

\* the endpoint under work passed its health check
Accepted == pc \in {"quota", "pools", "done"}

\* C26: an endpoint is accepted only on a 200 response whose body parsed,
\* and then the project id is the one of the response, or the hardcoded
\* default when the response has none; on any other status, a body that does
\* not parse or a transport error the pipeline goes on to the next endpoint
\* (or ends after the last) and that endpoint gets no quota or trigger request
C26_HealthGate ==
    /\ [](/\ Accepted =>
               /\ ~probed.err /\ probed.statusCode = 200 /\ ~probed.bodyNull
               /\ projectId = IF probed.payload # "" THEN probed.payload
                                                     ELSE "bamboo-precept-lgxtn"
           /\ \A e \in EndpointIndices :
                 epOutcome[e] = "healthFailed" =>
                    \A i \in 1..Len(calls) :
                        calls[i].ep = e => calls[i].kind = "health")
    /\ [][pc = "health" /\ pc' # "quota" =>
             /\ probed'.err \/ probed'.statusCode # 200 \/ probed'.bodyNull
             /\ epOutcome'[epIdx] = "healthFailed"
             /\ calls' = Append(calls, Call("health", epIdx, ""))
             /\ IF epIdx < Len(ENDPOINTS)
                THEN pc' = "health" /\ epIdx' = epIdx + 1
                ELSE pc' = "fatal"]_vars

\* the quota check of endpoint e threw or found no pool
QuotaFailedOn(e) == epOutcome[e] \in {"quotaFailed", "noModels"}

\* C27: when the quota check of an endpoint throws or returns no pool, the
\* pipeline goes on to the next endpoint (ending in failure only after the
\* last one) and that endpoint gets no trigger request; the pool loop is
\* entered only with at least one pool, and the run can still reach Done on a
\* later endpoint
C27_QuotaLocal ==
    /\ [](\A e \in EndpointIndices :
            QuotaFailedOn(e) =>
               /\ \A i \in 1..Len(calls) : calls[i].ep = e => calls[i].kind # "trigger"
               /\ e < Len(ENDPOINTS) => epIdx > e
               /\ pc = "fatal" => epOutcome[Len(ENDPOINTS)] \in EndpointFailures)
    /\ [][pc = "quota" =>
             /\ calls' = Append(calls, Call("quota", epIdx, ""))
             /\ IF pc' = "pools"
                THEN /\ models' # <<>>
                     /\ epIdx' = epIdx
                     /\ epOutcome'[epIdx] = "untried"
                ELSE /\ epOutcome'[epIdx] \in {"quotaFailed", "noModels"}
                     /\ IF epIdx < Len(ENDPOINTS)
                        THEN pc' = "health" /\ epIdx' = epIdx + 1
                        ELSE pc' = "fatal"]_vars

\* a trigger request was sent in this step
TriggerSent ==
    /\ Len(calls') = Len(calls) + 1
    /\ calls'[Len(calls')].kind = "trigger"

\* C28: the response that main() gets to a trigger request maps to the
\* outcome of its pool:
\* 200 to Success, which adds one to successCount, 429 to RateLimited and
\* every other status outside 2xx to Failed; RateLimited and Failed leave
\* successCount as it is, and the pool loop goes on to the next pool of the
\* same endpoint after either
C28_OutcomeMapping ==
    [][TriggerSent /\ answered' # Unanswered =>
         LET r == answered'
             o == results'[poolIdx]
         IN  /\ ~r.err /\ r.statusCode = 200 =>
                   o = "Success" /\ successCount' = successCount + 1
             /\ ~r.err /\ r.statusCode = 429 => o = "RateLimited"
             /\ ~r.err /\ r.statusCode \notin 200..299 /\ r.statusCode # 429 =>
                   o = "Failed"
             /\ o \in {"RateLimited", "Failed"} =>
                   /\ successCount' = successCount
                   /\ poolIdx' = poolIdx + 1
                   /\ pc' = "pools"
                   /\ epIdx' = epIdx]_vars

\* the first pool got 429 and the second 500; the loop went on and the third
\* pool got 200, the only outcome counted
C28_Witness ==
    /\ results = <<"RateLimited", "Failed", "Success">>
    /\ answered = Response(FALSE, 200, FALSE, "")
    /\ successCount = 1
    /\ poolIdx = 4
    /\ pc = "pools"

\* the place of a request in the body of main: token exchange, health
\* check, quota check, trigger
KindRank(kind) ==
    IF kind = "token" THEN 0
    ELSE IF kind = "health" THEN 1
    ELSE IF kind = "quota" THEN 2
    ELSE 3

\* the place in POOLS of the pool triggered through the model, 0 for none
PoolOf(model) ==
    IF \E p \in PoolIndices : POOLS[p].triggerId = model
    THEN CHOOSE p \in PoolIndices : POOLS[p].triggerId = model
    ELSE 0

\* request a comes before request b in the order of main: by endpoint in
\* list order, then health, quota, trigger, then by pool in the order of POOLS
Before(a, b) ==
    \/ a.ep < b.ep
    \/ a.ep = b.ep /\ KindRank(a.kind) < KindRank(b.kind)
    \/ a.ep = b.ep /\ a.kind = "trigger" /\ b.kind = "trigger"
         /\ PoolOf(a.model) < PoolOf(b.model)

\* C29: the requests of a run are sent one at a time, each step of main
\* sending at most one and handling its response before the next is sent;
\* they come in the order of main: the token exchange first, then endpoint
\* by endpoint in list order with none left out; on each endpoint the health
\* check completes before the quota check is sent, the quota check before
\* any trigger, and the triggers follow the order of POOLS
C29_Sequential ==
    /\ [](/\ calls # <<>> => calls[1].kind = "token"
           /\ \A i \in 1..(Len(calls) - 1) :
                 LET a == calls[i]
                     b == calls[i + 1]
                 IN  /\ Before(a, b)
                     /\ b.kind = "health" => b.ep = a.ep + 1
                     /\ b.kind = "quota" => a.kind = "health" /\ a.ep = b.ep
                     /\ b.kind = "trigger" =>
                           a.ep = b.ep /\ a.kind \in {"quota", "trigger"})
    /\ [][\/ calls' = calls
          \/ /\ Len(calls') = Len(calls) + 1
             /\ SubSeq(calls', 1, Len(calls)) = calls
             /\ calls'[Len(calls')].ep = epIdx \/ calls = <<>>]_vars

\* the first endpoint was probed, inspected and triggered for two pools,
\* both in vain; the second endpoint has got its first trigger
C29_Witness ==
    /\ Len(calls) = 8
    /\ [i \in 1..8 |-> calls[i].kind] =
          <<"token", "health", "quota", "trigger", "trigger",
            "health", "quota", "trigger">>
    /\ [i \in 1..8 |-> calls[i].ep] = <<0, 1, 1, 1, 1, 2, 2, 2>>
    /\ calls[4].model = POOLS[1].triggerId
    /\ calls[5].model = POOLS[3].triggerId

\* a request of the kind was sent to endpoint e and answered
Completed(kind, e) ==
    \E i \in 1..Len(calls) : calls[i].kind = kind /\ calls[i].ep = e

\* C30 as stated: the pipeline is past an endpoint only when both the health
\* check and the quota check of that endpoint have been sent and answered
C30_BothExhausted ==
    \A e \in EndpointIndices :
        epIdx > e => Completed("health", e) /\ Completed("quota", e)

\* C30, amended: the pipeline is past an endpoint only when the health check
\* of that endpoint has been sent and answered and, unless that health check
\* failed, its quota check as well; after a failed health check no quota
\* check is sent to the endpoint
C30_ExhaustedBeforeAdvance ==
    \A e \in EndpointIndices :
        epIdx > e =>
           /\ epOutcome[e] \in EndpointFailures
           /\ Completed("health", e)
           /\ epOutcome[e] # "healthFailed" => Completed("quota", e)
           /\ epOutcome[e] = "healthFailed" => ~Completed("quota", e)

\* the pipeline is at the third endpoint: the first failed its health check
\* and got no quota check, the second got both
C30_Witness ==
    /\ epIdx = 3
    /\ epOutcome[1] = "healthFailed"
    /\ ~Completed("quota", 1)
    /\ epOutcome[2] = "quotaFailed"
    /\ Completed("health", 2)
    /\ Completed("quota", 2)

\* C31: whenever the scheduler arms a wake-up, the armed delay is not
\* negative and the instant the timer is due at is not earlier than the wall
\* clock at the arming (it is the trigger time, or the arming instant when
\* the trigger time has already passed); it stays so while the timer is armed
C31_ArmedNotInPast ==
    /\ [](\A t \in Pending("wake") :
             /\ t.due >= clock
             /\ t.due = Max(clock, times.triggerTime))
    /\ [][~WakeArmed /\ WakeArmed' =>
             \A t \in Pending("wake")' :
                 /\ t.due - clock' >= 0
                 /\ t.due >= clock]_vars

\* a wake-up armed when the computed trigger time had just passed: the
\* delay is clamped to 0 and the timer is due at the arming instant
C31_Witness ==
    /\ WakeArmed
    /\ times.triggerTime < clock
    /\ Pending("wake") = {Timer("wake", clock)}

(***************************************************************************)
(* SpecKey: the session key of trigger requests                            *)
(***************************************************************************)
\* trigger requests inspected in one behaviour
MaxKeyed == 2

\* node processes running trigger.js
Processes == 1..2

\* PLUGIN_SESSION_ID of a process: '-' and a random UUID, taken to differ
\* from process to process
PLUGIN_SESSION_ID(p) ==
    <<"-6f1c2a9e-0b5d-4c3e-9a7f-1d2e3f4a5b6c",
      "-c0ffee00-1234-4abc-8def-0123456789ab">>[p]

\* project ids: the hardcoded default, one of a loadCodeAssist response, and
\* one holding the separator
Projects == {DEFAULT_PROJECT, "project-1", "gemini-3-flash:project-1"}

\* a key without the project
buildSignatureSessionKey_NoProject(sessionId, model, project) ==
    sessionId \o ":" \o model

\* `${sessionId}:${model}:${project}`
buildSignatureSessionKey(sessionId, model, project) ==
    sessionId \o ":" \o model \o ":" \o project

KeyInit ==
    /\ SchedIdle
    /\ PipeIdle
    /\ AuxIdle

\* a process calls triggerQuota for a pool and a project: the sessionId of
\* the request
TriggerKey ==
    /\ Len(keyed) < MaxKeyed
    /\ \E p \in Processes, g \in 1..Len(POOLS), project \in Projects :
          keyed' = Append(keyed,
             [process |-> p, model |-> POOLS[g].triggerId, project |-> project,
              sessionId |-> buildSignatureSessionKey(
                               PLUGIN_SESSION_ID(p), POOLS[g].triggerId, project)])
    /\ UNCHANGED <<statusEnv, statusOut, sent, catalog, exchanged, probed,
                   answered, statusRun, orphans>>
    /\ UNCHANGED schedVars
    /\ UNCHANGED pipeVars

KeyNext == TriggerKey

SpecKey == KeyInit /\ [][KeyNext]_vars

\* C32: two trigger requests carry the same session key exactly when they
\* come from the same process, for the same pool model and the same project:
\* the key is stable within a process for a pool and a project, and differs
\* when the process, the pool or the project differs
C32_KeyDetermined ==
    \A i, j \in 1..Len(keyed) :
        keyed[i].sessionId = keyed[j].sessionId <=>
            /\ keyed[i].process = keyed[j].process
            /\ keyed[i].model = keyed[j].model
            /\ keyed[i].project = keyed[j].project

\* one process triggered the same pool for two projects and got two keys
C32_Witness ==
    /\ Len(keyed) = 2
    /\ keyed[1].process = keyed[2].process
    /\ keyed[1].model = "gemini-3-flash"
    /\ keyed[2].model = "gemini-3-flash"
    /\ keyed[1].project = DEFAULT_PROJECT
    /\ keyed[2].project = "project-1"
    /\ keyed[1].sessionId # keyed[2].sessionId

\* the time of day of instant t in the zone of configuration c
TimeOfDay(t, c) == TzLocal(t, c) % MS_PER_DAY

\* the time of day configuration c asks for
ConfiguredTimeOfDay(c) ==
    c.workStartTime.hour * MS_PER_HOUR + c.workStartTime.minute * MS_PER_MIN

\* C33: the configuration is read-only after the constructor: no step of
\* the scheduler (start, health check, computing and arming the trigger, the
\* attempts and their backoff, the cool-down, rescheduling) changes the
\* trigger time of day, the timezone, the quota cycle or the dry-run flag;
\* so every trigger computed and every cycle fired, at any point of the
\* run, is at the time of day and in the zone of the configuration in force,
\* and a scheduler that has armed a timer or run a cycle is not in dry-run
C33_ConfigReadOnly ==
    /\ [][/\ cfg'.workStartTime = cfg.workStartTime
          /\ cfg'.timezone = cfg.timezone
          /\ cfg'.quotaCycle = cfg.quotaCycle
          /\ cfg'.dryRun = cfg.dryRun]_vars
    /\ [](\A i \in 1..Len(fired) :
             TimeOfDay(fired[i], cfg) = ConfiguredTimeOfDay(cfg))
    /\ [](nowRead >= 0 =>
             TimeOfDay(times.triggerTime, cfg) = ConfiguredTimeOfDay(cfg))
    /\ [](cfg.dryRun => timers = EmptyBag /\ cycles = 0)

\* the scheduler of UTC+7 has been through a failed cycle fired at 12:00 of
\* its zone, with its backoff waits and its cool-down, and has armed the
\* next wake-up for 12:00 of the next day
C33_Witness ==
    /\ cycles = 1
    /\ cycleResult = "exhausted"
    /\ delays = <<5000, 10000>>
    /\ WakeArmed
    /\ cfg = QuotaOptimizer(12, 0, 420, FALSE)
    /\ TimeOfDay(fired[1], cfg) = 12 * MS_PER_HOUR
    /\ times.triggerTime = fired[1] + MS_PER_DAY

\* C34: the retry loop stops at the first successful attempt: a cycle whose
\* attempt k is the first to succeed has made exactly k attempts and k-1
\* backoff waits (5 s, then 10 s), and no further attempt or wait follows in
\* that cycle; no backoff wait follows the last attempt of any cycle
C34_StopAtSuccess ==
    /\ [](cycleResult = "success" =>
             /\ attempts \in 1..MAX_RETRIES
             /\ attempt = attempts
             /\ delays = SubSeq(<<5000, 10000>>, 1, attempts - 1)
             /\ children = 0)
    /\ [](cycleResult \in {"success", "exhausted", "noScript"} =>
             /\ Pending("backoff") = {}
             /\ Len(delays) <= MAX_RETRIES - 1
             /\ spc \in {"cooldown", "armed"})
    /\ [][cycleResult = "success" /\ cycles' = cycles =>
             /\ attempts' = attempts
             /\ delays' = delays
             /\ children' = 0
             /\ cycleResult' = "success"]_vars

\* the second attempt of a cycle succeeded after one wait of 5 s
C34_Witness ==
    /\ cycleResult = "success"
    /\ attempts = 2
    /\ delays = <<5000>>
    /\ spc = "cooldown"

\* C35: the 1 h cool-down follows every cycle, whatever its outcome
\* (success, all attempts failed, trigger script missing): while it runs the
\* only timer is the one due an hour after the cycle ended; hence a cycle
\* starts at least one hour after the cycle before it started, and no
\* trigger instant fires twice in the lifetime of the process
C35_CooldownAlways ==
    /\ [](spc = "cooldown" =>
             /\ cycleResult \in {"success", "exhausted", "noScript"}
             /\ BagToSet(timers) = {Timer("cooldown", clock + MS_PER_HOUR)}
             /\ clock >= started)
    /\ [](\A i, j \in 1..Len(fired) : i < j => fired[i] # fired[j])
    /\ [][cycles' # cycles =>
             /\ started' = clock'
             /\ started >= 0 => started' >= started + MS_PER_HOUR]_vars

\* the scheduler found no trigger script at 12:00, waited its hour all the
\* same, and is in the cool-down of the next day's cycle
C35_Witness ==
    /\ Len(fired) = 2
    /\ fired[2] = fired[1] + MS_PER_DAY
    /\ spc = "cooldown"
    /\ cycleResult = "noScript"
    /\ clock = started
    /\ started >= fired[2]

(***************************************************************************)
(* SpecGate: one run of main() against endpoints that all report the same  *)
(* catalog                                                                 *)
(***************************************************************************)
\* remainingFraction of the entries: none, or 1
GateFractions == {Absent, 1000}

\* entries of the catalog that the endpoints report
MaxListed == 2

\* the catalogs an endpoint may report: up to MaxListed entries with
\* distinct keys
GateCatalogs ==
    UNION {{c \in [1..k -> [modelId : GateIds, remainingFraction : GateFractions]] :
               \A i, j \in 1..k : i # j => c[i].modelId # c[j].modelId} :
           k \in 0..MaxListed}

\* the pools the catalog has an entry for
ListedPools == {p \in PoolIndices : EntriesOf(p) # {}}

GateInit ==
    /\ SchedIdle
    /\ pc = "start"
    /\ epIdx = 0
    /\ poolIdx = 0
    /\ accessToken = "none"
    /\ projectId = "none"
    /\ models = <<>>
    /\ successCount = 0
    /\ results = NoResults
    /\ epOutcome = NoOutcome
    /\ calls = <<>>
    /\ issued = 0
    /\ statusEnv = [inContainer |-> FALSE, envTriggerTime |-> NoTime,
                    docker |-> "notRunning", dotEnv |-> NoTime]
    /\ statusOut = <<>>
    /\ sent = <<>>
    /\ catalog \in GateCatalogs
    /\ exchanged = <<>>
    /\ probed = NoProbe
    /\ answered = NoProbe
    /\ keyed = <<>>
    /\ statusRun = NoRun
    /\ orphans = EmptyBag

\* 2. Quota Check, fetchAvailableModels answering 200 with the catalog
GateQuota ==
    /\ pc = "quota"
    /\ QuotaCheckOn(checkQuota(Response(FALSE, 200, FALSE, catalog)))
    /\ UNCHANGED auxVars

GateNext ==
    \/ Authenticate
    \/ HealthCheck
    \/ GateQuota
    \/ PoolStep
    \/ AfterPools
    \/ Unsettled

SpecGate == GateInit /\ [][GateNext]_vars

\* the catalog has an entry for pool p, and it carries no remainingFraction
LacksFraction(p) ==
    /\ EntriesOf(p) # {}
    /\ \A i \in EntriesOf(p) : catalog[i].remainingFraction = Absent

\* the catalog lists a pool, and no listed pool carries a remainingFraction
AllLackFraction ==
    /\ ListedPools # {}
    /\ \A p \in ListedPools : LacksFraction(p)

\* C36: a pool whose catalog entry carries no remainingFraction is taken at
\* 0 %: it gets no trigger request, is recorded as skipped (cycle active)
\* and adds one to successCount; when no entry of the catalog carries a
\* remainingFraction the run ends as success (exit status 0) on the first
\* healthy endpoint without any trigger request
C36_AbsentIsZero ==
    /\ [](\A p \in PoolIndices :
             LoopScope /\ LacksFraction(p) =>
                /\ HasInfo(p)
                /\ RemainingValueOf(p) = 0
                /\ results[p] \in {"none", "SkippedCycleActive"}
                /\ poolIdx > p => results[p] = "SkippedCycleActive"
                /\ \A i \in 1..Len(calls) :
                      calls[i].kind = "trigger" => calls[i].model # POOLS[p].triggerId)
    /\ [](AllLackFraction =>
             /\ \A i \in 1..Len(calls) : calls[i].kind # "trigger"
             /\ LoopFinished => successCount = Cardinality(ListedPools)
             /\ \A e \in EndpointIndices :
                   epOutcome[e] \in {"untried", "healthFailed", "done"})
    /\ [][/\ (pc = "pools" /\ poolIdx <= Len(POOLS) /\ LacksFraction(poolIdx) =>
                 /\ successCount' = successCount + 1
                 /\ calls' = calls
                 /\ poolIdx' = poolIdx + 1)
          /\ (AllLackFraction /\ LoopFinished /\ pc = "pools" =>
                 pc' = "done" /\ ExitStatus(pc') = 0)]_vars

\* the endpoint lists the Claude and the Gemini 3 Flash pool, both without
\* remainingFraction: the run is done with both skipped and nothing sent to
\* streamGenerateContent
C36_Witness ==
    /\ Len(catalog) = 2
    /\ Cardinality(ListedPools) = 2
    /\ AllLackFraction
    /\ pc = "done"
    /\ results = <<"SkippedCycleActive", "SkippedNoInfo", "SkippedCycleActive">>
    /\ successCount = 2
    /\ Len(calls) = 3

\* C37: a pool that the classified quota list of the endpoint does not
\* contain gets no trigger request, is recorded as skipped (no info) and
\* leaves successCount as it is; and the pool loop is entered only with a
\* list in which at least one pool of POOLS has quota info, which the loop
\* then gates by its remaining value
C37_NoInfoSkipped ==
    /\ [](LoopScope =>
             /\ \A p \in PoolIndices : HasInfo(p) <=> p \in ListedPools
             /\ \E p \in PoolIndices : HasInfo(p)
             /\ \A p \in PoolIndices :
                   ~HasInfo(p) =>
                      /\ results[p] \in {"none", "SkippedNoInfo"}
                      /\ poolIdx > p => results[p] = "SkippedNoInfo"
                      /\ \A i \in 1..Len(calls) :
                            calls[i].kind = "trigger" /\ calls[i].ep = epIdx
                               => calls[i].model # POOLS[p].triggerId
             /\ \A p \in PoolIndices :
                   HasInfo(p) /\ poolIdx > p =>
                      results[p] \notin {"none", "SkippedNoInfo"}
             /\ successCount <= Cardinality({p \in PoolIndices :
                                                HasInfo(p) /\ poolIdx > p}))
    /\ [][pc = "pools" /\ poolIdx <= Len(POOLS) /\ ~HasInfo(poolIdx) =>
             /\ successCount' = successCount
             /\ calls' = calls
             /\ results' = [results EXCEPT ![poolIdx] = "SkippedNoInfo"]
             /\ poolIdx' = poolIdx + 1
             /\ pc' = "pools"]_vars
    /\ [][pc = "quota" /\ pc' = "pools" => ListedPools # {}]_vars

\* the endpoint lists the Gemini 3 Pro pool alone, at 100 %: the run is done,
\* the other two pools were skipped without info and only the listed pool
\* was triggered
C37_Witness ==
    /\ ListedPools = {2}
    /\ pc = "done"
    /\ results = <<"SkippedNoInfo", "Success", "SkippedNoInfo">>
    /\ successCount = 1
    /\ Len(calls) = 4

\* the step sends a trigger request that ends in a transport error
TriggerThrows ==
    /\ Eligible
    /\ Len(calls') = Len(calls) + 1
    /\ answered'.err

\* C38: a transport error of a pool's trigger request is caught in the pool
\* loop: the pool is recorded as an error, successCount stays as it is, and
\* the loop goes on with the next pool of the same endpoint; the request
\* itself never ends the run
C38_TriggerErrorLocal ==
    /\ [][TriggerThrows =>
             /\ results' = [results EXCEPT ![poolIdx] = "Error"]
             /\ successCount' = successCount
             /\ poolIdx' = poolIdx + 1
             /\ epIdx' = epIdx
             /\ epOutcome' = epOutcome
             /\ pc' = "pools"]_vars
    /\ [](LoopScope =>
             \A p \in PoolIndices :
                results[p] = "Error" =>
                   /\ poolIdx > p
                   /\ (poolIdx <= Len(POOLS) => results[poolIdx] = "none"))

\* on the first endpoint the Claude request threw, the Gemini 3 Pro request
\* after it was accepted, and the run is done
C38_Witness ==
    /\ pc = "done"
    /\ epIdx = 1
    /\ results[1] = "Error"
    /\ results[2] = "Success"
    /\ successCount >= 1
    /\ \E i \in 1..(Len(calls) - 1) :
          /\ calls[i].kind = "trigger" /\ calls[i].model = POOLS[1].triggerId
          /\ calls[i + 1].kind = "trigger" /\ calls[i + 1].model = POOLS[2].triggerId

\* every request of the run returns or errors, so main() keeps running
FairGate == SpecGate /\ WF_vars(GateNext)

\* the i-th and the j-th request of the run are the same request
SameRequest(i, j) ==
    /\ calls[i].kind = calls[j].kind
    /\ calls[i].ep = calls[j].ep
    /\ calls[i].model = calls[j].model

\* every request of the run returns or errors
AllSettle == [](pc # "unsettled")

\* C39: every run of the pipeline in which each request returns or errors
\* ends, either done (exit status 0) or in the fatal error (exit status 1),
\* and takes no step after that; no request is sent twice: one token
\* exchange at most and, for each endpoint of ENDPOINTS, at most one health
\* check, one quota fetch and one trigger request for each pool of POOLS
C39_Terminates ==
    /\ AllSettle => <>(pc \in {"done", "fatal"})
    /\ [][~Terminated]_vars
    /\ [](pc = "done" => ExitStatus(pc) = 0)
    /\ [](pc = "fatal" => ExitStatus(pc) = 1)
    /\ [](\A i, j \in 1..Len(calls) : i < j => ~SameRequest(i, j))
    /\ [](\A i \in 1..Len(calls) :
             /\ calls[i].kind \in {"token", "health", "quota", "trigger"}
             /\ calls[i].kind = "token" => calls[i].ep = 0 /\ calls[i].model = ""
             /\ calls[i].kind \in {"health", "quota"} =>
                   calls[i].ep \in EndpointIndices /\ calls[i].model = ""
             /\ calls[i].kind = "trigger" =>
                   /\ calls[i].ep \in EndpointIndices
                   /\ \E p \in PoolIndices : calls[i].model = POOLS[p].triggerId)

\* the run ended in the fatal error after all three endpoints were healthy,
\* listed two pools at 100 % and rejected both trigger requests: 13 requests
C39_Witness ==
    /\ pc = "fatal"
    /\ \A e \in EndpointIndices : epOutcome[e] = "allPoolsFailed"
    /\ Len(calls) = 1 + Len(ENDPOINTS) * (2 + 2)

(***************************************************************************)
(* SpecAgree: the pipeline's checkQuota and the quota part of the status   *)
(* command, both given the same catalog                                    *)
(***************************************************************************)
\* the status command multiplying nothing: the fraction as it is
showStatusRemaining_Fraction(fraction) ==
    IF fraction = Absent THEN 0 ELSE fraction

\* showStatus: (quota.remainingFraction || 0) * 100
showStatusRemaining(fraction) ==
    IF fraction = Absent THEN 0 ELSE fraction * 100

\* showStatus: the for loop over Object.entries(allModels), summaryMap after
\* the entries i.. of the catalog
RECURSIVE showStatusMap(_, _, _)
showStatusMap(cat, i, map) ==
    IF i > Len(cat) THEN map
    ELSE LET modelId == cat[i].modelId
             group   == GroupOf[modelId]
         IN  IF group = 0 THEN showStatusMap(cat, i + 1, map)
             ELSE IF IsImage[modelId] THEN showStatusMap(cat, i + 1, map)
             ELSE IF map[group] # NotSet THEN showStatusMap(cat, i + 1, map)
             ELSE showStatusMap(cat, i + 1,
                     [map EXCEPT ![group] = showStatusRemaining(cat[i].remainingFraction)])

\* showStatus: MODEL_GROUPS.map(g => summaryMap.get(g.id)).filter(Boolean)
showStatusList(map) ==
    LET set == {g \in 1..Len(MODEL_GROUPS) : map[g] # NotSet}
        RECURSIVE Rows(_)
        Rows(g) == IF g > Len(MODEL_GROUPS) THEN <<>>
                   ELSE IF g \in set
                   THEN <<[id |-> MODEL_GROUPS[g].id, remainingValue |-> map[g]]>>
                           \o Rows(g + 1)
                   ELSE Rows(g + 1)
    IN  Rows(1)

\* showStatus, 2. Show quota, the token endpoint answering with tok and
\* every endpoint answering loadCodeAssist with health and
\* fetchAvailableModels with res: '✗ Auth error' when the token exchange
\* throws, the summary of the first endpoint, or '✗ Could not fetch quota'
\* after every endpoint was left by `continue`
showStatusQuota(tok, health, res) ==
    IF getAccessToken(tok).threw
    THEN [quota |-> "authError", summary |-> <<>>]
    ELSE IF health.err \/ health.statusCode # 200 \/ health.bodyNull
    THEN [quota |-> "couldNotFetch", summary |-> <<>>]
    ELSE IF res.err \/ res.statusCode # 200 \/ res.bodyNull
    THEN [quota |-> "couldNotFetch", summary |-> <<>>]
    ELSE [quota |-> "fetched",
          summary |-> showStatusList(
              showStatusMap(res.payload, 1, [g \in 1..Len(MODEL_GROUPS) |-> NotSet]))]

\* one status invocation, the endpoints answering with the catalog; or an
\* answer is cut and the command ends without a quota line
ShowQuota ==
    /\ statusOut = <<>>
    /\ \/ \E tok \in TokenResponses, health \in HealthResponses, st \in {200, 500} :
             statusOut' =
                 <<showStatusQuota(tok, health, Response(FALSE, st, FALSE, catalog))>>
       \/ statusOut' = <<[quota |-> "unsettled", summary |-> <<>>]>>
    /\ UNCHANGED <<statusEnv, sent, catalog, exchanged, probed, answered, keyed, statusRun, orphans>>
    /\ UNCHANGED schedVars
    /\ UNCHANGED pipeVars

AgreeNext ==
    \/ Inspect
    \/ ShowQuota

SpecAgree == QuotaInit /\ [][AgreeNext]_vars

\* both commands have fetched the catalog
BothFetched ==
    /\ pc = "inspected"
    /\ statusOut # <<>>
    /\ statusOut[1].quota = "fetched"

\* C40: given the same catalog, the status command and checkQuota list the
\* same pool ids, in the same order, with the same remaining values
C40_StatusAgrees ==
    BothFetched =>
        /\ Len(statusOut[1].summary) = Len(models)
        /\ \A i \in 1..Len(models) :
              /\ statusOut[1].summary[i].id = models[i].id
              /\ statusOut[1].summary[i].remainingValue = models[i].remainingValue

\* a catalog of three entries was classified by both into two pools with
\* different remaining values, the first of them not at 0
C40_Witness ==
    /\ BothFetched
    /\ Len(catalog) = 3
    /\ Len(models) = 2
    /\ Len(statusOut[1].summary) = 2
    /\ models[1].remainingValue > 0
    /\ models[1].remainingValue # models[2].remainingValue

====
